---- MODULE Spec2Model ----
(***************************************************************************)
(* genjutsu-db: the repository engine (src/src/client.ts), the             *)
(* referential-integrity and eager-load engine (src/src/relations.ts), the *)
(* schema functions of defineModel (model.ts), the migration runner        *)
(* (migrations.ts) and the HTTP transport (src/src/transport.ts) over a    *)
(* spreadsheet whose tabs are sequences of rows.                           *)
(*                                                                         *)
(* A handler is an async function: it runs from one await to the next      *)
(* without interruption.  Every network call is one step (the call takes   *)
(* effect on the spreadsheet and the handler continues to its next await). *)
(***************************************************************************)
EXTENDS Integers, Sequences, FiniteSets, TLC

VARIABLES
    sheets,     \* the spreadsheet: tab name -> rows, row 1 first; a row is a sequence of cells
    ops,        \* slot -> the outstanding call of a client operation (its arguments, position and locals)
    writeLock,  \* client.ts writeLock: the slot whose promise is the tail of the chain, 0 when that promise is resolved
    last,       \* the call that settled in the step just taken: its arguments and the value or error it settled with
    ctx         \* client.ts ctx: the auth and apiKey the client was created with

vars == <<sheets, ops, writeLock, last, ctx>>

\* ------------------------------------------------------------------ bounds

\* Data rows a tab may hold: appends are issued only below it.
MaxRows == 2
\* Client calls outstanding at once.
MaxOps == 2
\* The ledger rows a spreadsheet may come to hold, and the highest version.
MaxLedger == 4
MaxVersion == 4

Slots == 1..MaxOps

\* ------------------------------------------------------------------ values

\* JavaScript null, and a blank cell of the sheet (JSON null).
NULL == "<null>"
\* JavaScript undefined: the value of a property an object does not have.
UNDEF == "<undefined>"

\* entity[name]
Get(e, f) == IF f \in DOMAIN e THEN e[f] ELSE UNDEF

\* { ...a, ...b }
Spread(a, b) == [f \in (DOMAIN a) \cup (DOMAIN b) |-> IF f \in DOMAIN b THEN b[f] ELSE a[f]]

Range(s) == {s[i] : i \in 1..Len(s)}

\* ------------------------------------------------------------------ schemas

\* A range "Tab!A<row>:<lastCol>" is the tab and its first row.
\* defineModel("Orders", { id: string().primaryKey(), customer: string().default("x") })
\* defineModel("Items",  { id: string().primaryKey(), orderId: string().optional().references("Orders", "id") })
\* Notes is a SheetSchema written by hand, without primaryKey and without validate:
\* { sheetName: "Notes", headers: ["text"], readRange: "Notes!A2:A", ... }
schemas ==
    [Orders |-> [sheetName  |-> "Orders",
                 headers    |-> <<"id", "customer">>,
                 primaryKey |-> "id",
                 isOptional |-> {},
                 defaultValue |-> [f \in {"customer"} |-> "x"],
                 relations  |-> <<>>,
                 appendSupported |-> UNDEF,
                 headerFormatting |-> <<[bold |-> TRUE]>>,
                 readRange  |-> [sheet |-> "Orders", row |-> 2],
                 writeRange |-> [sheet |-> "Orders", row |-> 1],
                 clearRange |-> [sheet |-> "Orders", row |-> 2]],
     Items  |-> [sheetName  |-> "Items",
                 headers    |-> <<"id", "orderId">>,
                 primaryKey |-> "id",
                 isOptional |-> {"orderId"},
                 defaultValue |-> [f \in {} |-> "x"],
                 relations  |-> <<[sourceField |-> "orderId",
                                   targetModel |-> "Orders",
                                   targetField |-> "id"]>>,
                 appendSupported |-> UNDEF,
                 headerFormatting |-> <<>>,
                 readRange  |-> [sheet |-> "Items", row |-> 2],
                 writeRange |-> [sheet |-> "Items", row |-> 1],
                 clearRange |-> [sheet |-> "Items", row |-> 2]],
     Notes  |-> [sheetName  |-> "Notes",
                 headers    |-> <<"text">>,
                 primaryKey |-> UNDEF,
                 isOptional |-> {"text"},
                 defaultValue |-> [f \in {} |-> "x"],
                 relations  |-> <<>>,
                 appendSupported |-> UNDEF,
                 headerFormatting |-> <<>>,
                 readRange  |-> [sheet |-> "Notes", row |-> 2],
                 writeRange |-> [sheet |-> "Notes", row |-> 1],
                 clearRange |-> [sheet |-> "Notes", row |-> 2]]]

\* Object.entries(schemas): the registered models in their order.
ModelKeys == <<"Orders", "Items", "Notes">>

\* ------------------------------------------------------------------ errors

validationError(fields, message) ==
    [kind |-> "VALIDATION_ERROR", fields |-> fields, message |-> message]

schemaError(message) ==
    [kind |-> "SCHEMA_ERROR", fields |-> <<>>, message |-> message]

Ok(value) == [kind |-> "ok", value |-> value]

permissionError(message) == [kind |-> "PERMISSION_ERROR", message |-> message]

\* ------------------------------------------------------------------ model.ts

IsEmptyCell(v) == v = UNDEF \/ v = NULL \/ v = ""

\* parseCell, for the string type every field of the schemas above has.
parseCell(s, f, value) ==
    IF IsEmptyCell(value) /\ f \in DOMAIN s.defaultValue
    THEN s.defaultValue[f]
    ELSE IF IsEmptyCell(value)
         THEN (IF f \in s.isOptional THEN NULL ELSE "")
         ELSE value

\* parseRow: no entity (the empty sequence) for a row whose first cell is
\* blank, one entity otherwise.
parseRow(s, row) ==
    LET firstCell == IF Len(row) >= 1 THEN row[1] ELSE UNDEF
    IN  IF IsEmptyCell(firstCell)
        THEN <<>>
        ELSE <<[f \in Range(s.headers) |->
                 LET i == CHOOSE k \in 1..Len(s.headers) : s.headers[k] = f
                 IN  parseCell(s, f, IF i <= Len(row) THEN row[i] ELSE UNDEF)]>>

toRow(s, entity) == [i \in 1..Len(s.headers) |-> Get(entity, s.headers[i])]

\* validate: the required fields that are null or undefined, in column order.
MissingFields(s, entity) ==
    SelectSeq(s.headers,
              LAMBDA f : f \notin s.isOptional /\ Get(entity, f) \in {NULL, UNDEF})

\* ------------------------------------------------------------------ the spreadsheet

TrimRow(row) ==
    LET used == {i \in 1..Len(row) : row[i] # NULL}
    IN  IF used = {} THEN <<>>
        ELSE SubSeq(row, 1, CHOOSE i \in used : \A j \in used : j <= i)

\* getSheetValues: the rows of the range, each without its trailing blank cells.
getSheetValues(sh, range) ==
    LET rows == sh[range.sheet]
    IN  [i \in 1..(IF Len(rows) >= range.row THEN Len(rows) - range.row + 1 ELSE 0) |->
            TrimRow(rows[i + range.row - 1])]

\* JSON.stringify turns undefined into null: a blank cell.
JsonRow(row) == [i \in 1..Len(row) |-> IF row[i] = UNDEF THEN NULL ELSE row[i]]

\* updateSheet(range, values, append): PUT writes values from the first row of
\* the range on and leaves the rows after them; POST :append adds them after
\* the last row of the tab (on an empty tab: from row 1).
updateSheet(sh, range, values, append) ==
    LET rows == sh[range.sheet]
        new  == [i \in 1..Len(values) |-> JsonRow(values[i])]
        top  == range.row - 1
    IN  [sh EXCEPT ![range.sheet] =
            IF append
            THEN rows \o new
            ELSE [i \in 1..(IF Len(rows) > top + Len(new) THEN Len(rows) ELSE top + Len(new)) |->
                    IF i > top /\ i <= top + Len(new) THEN new[i - top]
                    ELSE IF i <= Len(rows) THEN rows[i]
                    ELSE <<>>]]

ClearNothing(sh, range) == sh

\* clearRange(range): blanks the range's rows; a tab ends at its last row in use.
clearRange(sh, range) ==
    LET rows == sh[range.sheet]
    IN  [sh EXCEPT ![range.sheet] =
            IF Len(rows) >= range.row THEN SubSeq(rows, 1, range.row - 1) ELSE rows]

\* batchClear(ranges), batchUpdate(data): every range in the one call.
RECURSIVE batchClear(_, _)
batchClear(sh, ranges) ==
    IF ranges = <<>> THEN sh ELSE batchClear(clearRange(sh, Head(ranges)), Tail(ranges))

RECURSIVE batchUpdate(_, _)
batchUpdate(sh, data) ==
    IF data = <<>> THEN sh
    ELSE batchUpdate(updateSheet(sh, Head(data).range, Head(data).values, FALSE), Tail(data))

\* ------------------------------------------------------------------ client.ts helpers

RECURSIVE ParseRows(_, _)
ParseRows(s, rows) ==
    IF rows = <<>> THEN <<>> ELSE parseRow(s, Head(rows)) \o ParseRows(s, Tail(rows))

\* readAllRaw: one read of the tab's read range, every row parsed, nulls dropped.
readAllRaw(sh, s) == ParseRows(s, getSheetValues(sh, s.readRange))

applyDefaults(s, record) ==
    [f \in (DOMAIN record) \cup {g \in DOMAIN s.defaultValue : Get(record, g) = UNDEF} |->
        IF Get(record, f) = UNDEF THEN s.defaultValue[f] ELSE record[f]]

\* values = [schema.headers, ...records.map(toRow)]
HeaderAndRows(s, records) ==
    <<s.headers>> \o [i \in 1..Len(records) |-> toRow(s, records[i])]

\* ------------------------------------------------------------------ operations

\* A slot of `ops`.  kind, model, id, rec, list, skipFk are the call's
\* arguments; pc its position; prev the tail of the write lock's chain when
\* the call was made, the promise a withWriteLock call waits for;
\* entity, records, index, rel its locals.  calls (the network calls it has
\* made), before (the spreadsheet when it started) and twin (the outcome of the
\* create it queued directly behind, when that one carried the same key, passed
\* schema validation and started on a table without the key, or of the update
\* it queued directly behind, when that one named the same record and other
\* fields) record its history.
Idle ==
    [kind |-> "idle", model |-> "Orders", id |-> "", rec |-> <<>>, list |-> <<>>,
     skipFk |-> FALSE, pc |-> "idle", prev |-> 0,
     entity |-> <<>>, records |-> <<>>, index |-> 0, rel |-> 1,
     calls |-> <<>>, before |-> <<>>, twin |-> "none"]

NoEvent == [kind |-> "none"]

WriteKinds == {"create", "update", "delete", "writeAll", "append", "batchSync",
               "raw.writeRange", "raw.clearRange"}

FreeSlot == IF \E i \in Slots : ops[i].kind = "idle"
            THEN CHOOSE i \in Slots : ops[i].kind = "idle" /\ \A j \in Slots : ops[j].kind = "idle" => i <= j
            ELSE 0

\* withWriteLock, at the call: prev = writeLock; writeLock = a new promise, this call's.
Enqueue(op) ==
    /\ FreeSlot # 0
    /\ ops' = [ops EXCEPT ![FreeSlot] = [op EXCEPT !.pc = "queued", !.prev = writeLock]]
    /\ writeLock' = FreeSlot
    /\ last' = NoEvent
    /\ UNCHANGED <<sheets, ctx>>

ResolvedAlways(p) == TRUE

\* prev.then(fn): fn starts once the promise before it in the chain is resolved.
Resolved(p) == p = 0

\* The primary key a create carries.
CreateKey(op) == Get(applyDefaults(schemas[op.model], op.rec), schemas[op.model].primaryKey)

Keys(sh, s) == {Get(r, s.primaryKey) : r \in Range(readAllRaw(sh, s))}

Event(op, result) ==
    [kind |-> op.kind, model |-> op.model, id |-> op.id, rec |-> op.rec, list |-> op.list,
     skipFk |-> op.skipFk, calls |-> op.calls, before |-> op.before, twin |-> op.twin,
     result |-> result]

\* const isReadOnly = !config.auth
isReadOnly == ctx.auth = UNDEF

\* The call in `op` fails at the call, before any await.
Reject(op, error) ==
    /\ last' = Event(op, error)
    /\ UNCHANGED <<sheets, ops, writeLock, ctx>>

Writable(op, continue) == continue

\* assertWritable(), the first statement of every write: on a client created
\* without auth the call fails and `continue`, the rest of the call, is not reached.
assertWritable(op, continue) ==
    IF isReadOnly
    THEN Reject(op, permissionError("Write operations require auth"))
    ELSE continue

ReleasedOnSuccess(op, result) == op.kind \in WriteKinds /\ result.kind = "ok"

\* .finally(() => resolve()): a call that went through withWriteLock resolves
\* its promise of the chain when it settles, with a value or with an error.
Released(op, result) == op.kind \in WriteKinds

\* The call in slot i settles with `result`.  One that went through
\* withWriteLock resolves its promise of the chain (.finally(() => resolve())),
\* which the call queued behind it waits for.
Settle(i, op, result, sh) ==
    /\ ops' = [j \in Slots |->
                IF j = i THEN Idle
                ELSE IF ops[j].prev = i /\ Released(op, result)
                THEN [ops[j] EXCEPT !.prev = 0,
                                    !.twin = IF /\ op.kind = "create" /\ ops[j].kind = "create"
                                                /\ op.model = ops[j].model
                                                /\ CreateKey(op) = CreateKey(ops[j])
                                                /\ MissingFields(schemas[op.model], op.entity) = <<>>
                                                /\ CreateKey(op) \notin Keys(op.before, schemas[op.model])
                                             THEN result.kind
                                             ELSE IF /\ op.kind = "update" /\ ops[j].kind = "update"
                                                     /\ op.model = ops[j].model /\ op.id = ops[j].id
                                                     /\ DOMAIN op.rec \cap DOMAIN ops[j].rec = {}
                                             THEN result.kind ELSE "none"]
                ELSE ops[j]]
    /\ writeLock' = IF writeLock = i /\ Released(op, result) THEN 0 ELSE writeLock
    /\ last' = Event(op, result)
    /\ sheets' = sh
    /\ UNCHANGED ctx

\* The call in slot i goes on to its next await.
Goto(i, op, sh) ==
    /\ ops' = [ops EXCEPT ![i] = op]
    /\ sheets' = sh
    /\ last' = NoEvent
    /\ UNCHANGED <<writeLock, ctx>>

\* The network calls, as a call records them.
Read(op, range) == [op EXCEPT !.calls = Append(@, [fn |-> "getSheetValues", range |-> range])]
Put(op, range, values) ==
    [op EXCEPT !.calls = Append(@, [fn |-> "updateSheet", range |-> range, values |-> values, append |-> FALSE])]
Post(op, range, values) ==
    [op EXCEPT !.calls = Append(@, [fn |-> "updateSheet", range |-> range, values |-> values, append |-> TRUE])]
Clear(op, range) == [op EXCEPT !.calls = Append(@, [fn |-> "clearRange", range |-> range])]

\* The data rows a tab holds or is about to hold: its rows (or the rows a
\* rewrite under way or queued will write) and the rows of the appends outstanding.
DataRows(m) ==
    IF Len(sheets[schemas[m].sheetName]) > 1 THEN Len(sheets[schemas[m].sheetName]) - 1 ELSE 0

\* The rows the call in slot i will write to the tab of m all at once.
RowsHeld(i, m) ==
    IF ops[i].kind \in {"update", "delete"} /\ ops[i].model = m /\ ops[i].pc \in {"clear", "write"}
    THEN Len(ops[i].records)
    ELSE IF ops[i].kind = "writeAll" /\ ops[i].model = m THEN Len(ops[i].list)
    ELSE IF ops[i].kind = "batchSync" /\ m \in DOMAIN ops[i].rec THEN Len(ops[i].rec[m])
    ELSE 0

\* The rows the call in slot i will append to the tab of m.
RowsAdded(i, m) ==
    IF ops[i].kind = "create" /\ ops[i].model = m THEN 1
    ELSE IF ops[i].kind = "append" /\ ops[i].model = m THEN Len(ops[i].list)
    ELSE 0

RECURSIVE Sum(_, _)
Sum(f, S) == IF S = {} THEN 0 ELSE LET x == CHOOSE y \in S : TRUE IN f[x] + Sum(f, S \ {x})

RowsInUse(m) ==
    LET held == {DataRows(m)} \cup {RowsHeld(i, m) : i \in Slots}
    IN  (CHOOSE n \in held : \A k \in held : k <= n) + Sum([i \in Slots |-> RowsAdded(i, m)], Slots)

\* ------------------------------------------------------------------ relations.ts

IndexOf(seq, x) == IF \E k \in 1..Len(seq) : seq[k] = x
                   THEN CHOOSE k \in 1..Len(seq) : seq[k] = x /\ \A j \in 1..(k - 1) : seq[j] # x
                   ELSE 0

\* String(value)
String(v) == IF v = NULL THEN "null" ELSE IF v = UNDEF THEN "undefined" ELSE v

FkCheckedAlways(s, record, changedFields, k) == TRUE

\* validateForeignKeys, the relations it reads the target of (changedFields is
\* <<>> when the argument is not given, <<the set>> when it is): relation k is
\* skipped when its field is not among the changed ones, its value is null or
\* undefined, or its target model or target column is unknown.
FkChecked(s, record, changedFields, k) ==
    LET relation == s.relations[k]
        fkValue == Get(record, relation.sourceField)
    IN  /\ (changedFields # <<>> => relation.sourceField \in changedFields[1])
        /\ fkValue # NULL /\ fkValue # UNDEF
        /\ relation.targetModel \in DOMAIN schemas
        /\ IndexOf(schemas[relation.targetModel].headers,
                   schemas[relation.targetModel].primaryKey) # 0

\* The first relation from `from` on that is read, 0 when there is none.
NextFk(s, record, changedFields, from) ==
    LET todo == {k \in from..Len(s.relations) : FkChecked(s, record, changedFields, k)}
    IN  IF todo = {} THEN 0 ELSE CHOOSE k \in todo : \A j \in todo : k <= j

FkExistsAlways(sh, relation, fkValue) == TRUE

\* rows.some(row => row[pkIndex] != null && String(row[pkIndex]) === String(fkValue))
FkExists(sh, relation, fkValue) ==
    LET targetSchema == schemas[relation.targetModel]
        rows == getSheetValues(sh, targetSchema.readRange)
        pkIndex == IndexOf(targetSchema.headers, targetSchema.primaryKey)
    IN  \E r \in 1..Len(rows) :
            LET cellValue == IF pkIndex <= Len(rows[r]) THEN rows[r][pkIndex] ELSE UNDEF
            IN  cellValue # UNDEF /\ cellValue # NULL /\ String(cellValue) = String(fkValue)

\* ------------------------------------------------------------------ create

\* repo.create(record, options), at the call.
IssueCreate(m, record, skipFkValidation) ==
    LET op == [Idle EXCEPT !.kind = "create", !.model = m, !.rec = record,
                           !.skipFk = skipFkValidation]
    IN  /\ RowsInUse(m) < MaxRows
        /\ assertWritable(op, Enqueue(op))

\* create after the duplicate check: at the first foreign key whose target is
\* read, or at the header check.
CreateAfterPk(op) ==
    LET s == schemas[op.model]
        k == IF op.skipFk THEN 0 ELSE NextFk(s, op.entity, <<>>, 1)
    IN  IF k # 0 THEN [op EXCEPT !.pc = "validateFk", !.rel = k]
        ELSE [op EXCEPT !.pc = "ensureHeader"]

\* create starts: applyDefaults and schema.validate.
CreateBegin(i) ==
    LET op == ops[i]
        s == schemas[op.model]
        entity == applyDefaults(s, op.rec)
        began == [op EXCEPT !.entity = entity, !.before = sheets]
    IN  /\ ops[i].kind = "create" /\ ops[i].pc = "queued" /\ Resolved(op.prev)
        /\ IF MissingFields(s, entity) # <<>>
           THEN Settle(i, began, validationError(MissingFields(s, entity), "Validation failed"), sheets)
           ELSE IF s.primaryKey # UNDEF
                THEN Goto(i, [began EXCEPT !.pc = "checkDuplicate"], sheets)
                ELSE Goto(i, CreateAfterPk(began), sheets)

NoDuplicate(existing, pk, pkValue) == FALSE

\* existing.find(e => e[pk] === pkValue)
Duplicate(existing, pk, pkValue) == \E k \in 1..Len(existing) : Get(existing[k], pk) = pkValue

\* create: readAllRaw and the duplicate primary key check.
CreateCheckDuplicate(i) ==
    LET op == Read(ops[i], schemas[ops[i].model].readRange)
        s == schemas[op.model]
        existing == readAllRaw(sheets, s)
        pkValue == Get(op.entity, s.primaryKey)
    IN  /\ ops[i].kind = "create" /\ ops[i].pc = "checkDuplicate"
        /\ IF Duplicate(existing, s.primaryKey, pkValue)
           THEN Settle(i, op, validationError(<<s.primaryKey>>, "Duplicate primary key"), sheets)
           ELSE Goto(i, CreateAfterPk(op), sheets)

\* create: the header check, a read of the write range.
CreateEnsureHeader(i) ==
    LET op == Read(ops[i], schemas[ops[i].model].writeRange)
        s == schemas[op.model]
        rawRows == getSheetValues(sheets, s.writeRange)
    IN  /\ ops[i].kind = "create" /\ ops[i].pc = "ensureHeader"
        /\ Goto(i, [op EXCEPT !.pc = IF Len(rawRows) = 0 THEN "writeHeader" ELSE "append"], sheets)

\* create: the tab is empty, the header row is written first.
CreateWriteHeader(i) ==
    LET s == schemas[ops[i].model]
        op == Put(ops[i], s.writeRange, <<s.headers>>)
    IN  /\ ops[i].kind = "create" /\ ops[i].pc = "writeHeader"
        /\ Goto(i, [op EXCEPT !.pc = "append"],
                updateSheet(sheets, s.writeRange, <<s.headers>>, FALSE))

\* create: the row is appended and the entity returned.
CreateAppend(i) ==
    LET s == schemas[ops[i].model]
        op == Post(ops[i], s.writeRange, <<toRow(s, ops[i].entity)>>)
    IN  /\ ops[i].kind = "create" /\ ops[i].pc = "append"
        /\ Settle(i, op, Ok(op.entity),
                  updateSheet(sheets, s.writeRange, <<toRow(s, op.entity)>>, TRUE))

\* ------------------------------------------------------------------ update

\* repo.update(id, changes, options), at the call.
IssueUpdate(m, id, changes, skipFkValidation) ==
    LET op == [Idle EXCEPT !.kind = "update", !.model = m, !.id = id, !.rec = changes,
                           !.skipFk = skipFkValidation]
    IN  assertWritable(op, Enqueue(op))

UpdateBegin(i) ==
    /\ ops[i].kind = "update" /\ ops[i].pc = "queued" /\ Resolved(ops[i].prev)
    /\ Goto(i, [ops[i] EXCEPT !.pc = "read", !.before = sheets], sheets)

ReplaceAtEnd(records, index, merged) ==
    SubSeq(records, 1, index - 1) \o SubSeq(records, index + 1, Len(records)) \o <<merged>>

\* records[index] = merged
ReplaceAt(records, index, merged) == [records EXCEPT ![index] = merged]

\* update, once the foreign keys are validated.
UpdateAfterFk(op) ==
    [op EXCEPT !.pc = "clear", !.records = ReplaceAt(op.records, op.index, op.entity)]

UpdateAfterValidate(op) ==
    LET s == schemas[op.model]
        k == IF op.skipFk THEN 0 ELSE NextFk(s, op.entity, <<DOMAIN op.rec>>, 1)
    IN  IF k # 0 THEN [op EXCEPT !.pc = "validateFk", !.rel = k]
        ELSE UpdateAfterFk(op)

MergeKeepsRecord(record, changes) == Spread(changes, record)

\* { ...records[index], ...changes }
Merge(record, changes) == Spread(record, changes)

FindLast(records, pk, id) == Len(records)

\* records.findIndex(r => r[pk] === id), from 1; 0 when there is none.
FindIndex(records, pk, id) ==
    IF \E k \in 1..Len(records) : Get(records[k], pk) = id
    THEN CHOOSE k \in 1..Len(records) :
            /\ Get(records[k], pk) = id
            /\ \A j \in 1..(k - 1) : Get(records[j], pk) # id
    ELSE 0

\* update: readAllRaw, the record found by its key, the merge and schema.validate.
UpdateRead(i) ==
    LET op == Read(ops[i], schemas[ops[i].model].readRange)
        s == schemas[op.model]
        records == readAllRaw(sheets, s)
        pk == s.primaryKey
        index == FindIndex(records, pk, op.id)
        merged == Merge(records[index], op.rec)
    IN  /\ ops[i].kind = "update" /\ ops[i].pc = "read"
        /\ IF pk = UNDEF
           THEN Settle(i, op, validationError(<<>>, "Cannot update without a primary key"), sheets)
           ELSE IF index = 0
           THEN Settle(i, op, validationError(<<pk>>, "Record not found"), sheets)
           ELSE IF MissingFields(s, merged) # <<>>
           THEN Settle(i, op, validationError(MissingFields(s, merged), "Validation failed"), sheets)
           ELSE Goto(i, UpdateAfterValidate([op EXCEPT !.records = records, !.index = index,
                                                       !.entity = merged]), sheets)

\* update: the data range is cleared.
UpdateClear(i) ==
    LET s == schemas[ops[i].model]
        op == Clear(ops[i], s.clearRange)
    IN  /\ ops[i].kind = "update" /\ ops[i].pc = "clear"
        /\ Goto(i, [op EXCEPT !.pc = "write"], clearRange(sheets, s.clearRange))

\* update: the header and every record are written back; the merged record is returned.
UpdateWrite(i) ==
    LET s == schemas[ops[i].model]
        op == Put(ops[i], s.writeRange, HeaderAndRows(s, ops[i].records))
    IN  /\ ops[i].kind = "update" /\ ops[i].pc = "write"
        /\ Settle(i, op, Ok(op.entity),
                  updateSheet(sheets, s.writeRange, HeaderAndRows(s, op.records), FALSE))

\* create and update: validateForeignKeys reads the target of relation op.rel.
ValidateForeignKeys(i) ==
    LET op == Read(ops[i], schemas[schemas[ops[i].model].relations[ops[i].rel].targetModel].readRange)
        s == schemas[op.model]
        relation == s.relations[op.rel]
        fkValue == Get(op.entity, relation.sourceField)
        k == NextFk(s, op.entity, IF op.kind = "update" THEN <<DOMAIN op.rec>> ELSE <<>>, op.rel + 1)
    IN  /\ ops[i].kind \in {"create", "update"} /\ ops[i].pc = "validateFk"
        /\ IF ~FkExists(sheets, relation, fkValue)
           THEN Settle(i, op, validationError(<<relation.sourceField>>, "Foreign key validation failed"), sheets)
           ELSE IF k # 0
           THEN Goto(i, [op EXCEPT !.rel = k], sheets)
           ELSE IF op.kind = "create"
           THEN Goto(i, [op EXCEPT !.pc = "ensureHeader"], sheets)
           ELSE Goto(i, UpdateAfterFk(op), sheets)

\* ------------------------------------------------------------------ delete

\* repo.delete(id), at the call.
IssueDelete(m, id) ==
    LET op == [Idle EXCEPT !.kind = "delete", !.model = m, !.id = id]
    IN  assertWritable(op, Enqueue(op))

DeleteBegin(i) ==
    LET op == [ops[i] EXCEPT !.before = sheets]
    IN  /\ ops[i].kind = "delete" /\ ops[i].pc = "queued" /\ Resolved(op.prev)
        /\ IF schemas[op.model].primaryKey = UNDEF
           THEN Settle(i, op, Ok(UNDEF), sheets)
           ELSE Goto(i, [op EXCEPT !.pc = "read"], sheets)

FilterNone(records, pk, id) == <<>>

\* records.filter(r => r[pk] !== id)
Filter(records, pk, id) == SelectSeq(records, LAMBDA r : Get(r, pk) # id)

\* delete: readAllRaw and the records with another key.
DeleteRead(i) ==
    LET op == Read(ops[i], schemas[ops[i].model].readRange)
        s == schemas[op.model]
    IN  /\ ops[i].kind = "delete" /\ ops[i].pc = "read"
        /\ Goto(i, [op EXCEPT !.pc = "clear",
                              !.records = Filter(readAllRaw(sheets, s), s.primaryKey, op.id)], sheets)

DeleteClear(i) ==
    LET s == schemas[ops[i].model]
        op == Clear(ops[i], s.clearRange)
    IN  /\ ops[i].kind = "delete" /\ ops[i].pc = "clear"
        /\ Goto(i, [op EXCEPT !.pc = "write"], clearRange(sheets, s.clearRange))

DeleteWrite(i) ==
    LET s == schemas[ops[i].model]
        op == Put(ops[i], s.writeRange, HeaderAndRows(s, ops[i].records))
    IN  /\ ops[i].kind = "delete" /\ ops[i].pc = "write"
        /\ Settle(i, op, Ok(UNDEF),
                  updateSheet(sheets, s.writeRange, HeaderAndRows(s, op.records), FALSE))


\* ------------------------------------------------------------------ writeAll, append

\* repo.writeAll(records), at the call.
IssueWriteAll(m, records) ==
    LET op == [Idle EXCEPT !.kind = "writeAll", !.model = m, !.list = records]
    IN  assertWritable(op, Enqueue(op))

\* for (const r of records) schema.validate(r): the first record that fails.
FirstInvalid(s, records) ==
    LET bad == {k \in 1..Len(records) : MissingFields(s, records[k]) # <<>>}
    IN  IF bad = {} THEN 0 ELSE CHOOSE k \in bad : \A j \in bad : k <= j

\* writeAll starts: every record is validated.
WriteAllBegin(i) ==
    LET op == [ops[i] EXCEPT !.before = sheets]
        s == schemas[op.model]
        k == FirstInvalid(s, op.list)
    IN  /\ ops[i].kind = "writeAll" /\ ops[i].pc = "queued" /\ Resolved(op.prev)
        /\ IF k # 0
           THEN Settle(i, op, validationError(MissingFields(s, op.list[k]), "Validation failed"), sheets)
           ELSE Goto(i, [op EXCEPT !.pc = "clear"], sheets)

WriteAllClear(i) ==
    LET s == schemas[ops[i].model]
        op == Clear(ops[i], s.clearRange)
    IN  /\ ops[i].kind = "writeAll" /\ ops[i].pc = "clear"
        /\ Goto(i, [op EXCEPT !.pc = "write"], clearRange(sheets, s.clearRange))

\* writeAll: values holds the header at least, so the write is always made.
WriteAllWrite(i) ==
    LET s == schemas[ops[i].model]
        op == Put(ops[i], s.writeRange, HeaderAndRows(s, ops[i].list))
    IN  /\ ops[i].kind = "writeAll" /\ ops[i].pc = "write"
        /\ Settle(i, op, Ok(UNDEF),
                  updateSheet(sheets, s.writeRange, HeaderAndRows(s, op.list), FALSE))

\* repo.append(records), at the call: rejected without the lock when the
\* schema does not support append.
IssueAppend(m, records) ==
    LET op == [Idle EXCEPT !.kind = "append", !.model = m, !.list = records]
    IN  /\ RowsInUse(m) + Len(records) <= MaxRows
        /\ assertWritable(op,
                IF schemas[m].appendSupported = "false"
                THEN Reject(op, schemaError("Append not supported"))
                ELSE Enqueue(op))

AppendBegin(i) ==
    LET op == [ops[i] EXCEPT !.before = sheets]
        s == schemas[op.model]
        k == FirstInvalid(s, op.list)
    IN  /\ ops[i].kind = "append" /\ ops[i].pc = "queued" /\ Resolved(op.prev)
        /\ IF k # 0
           THEN Settle(i, op, validationError(MissingFields(s, op.list[k]), "Validation failed"), sheets)
           ELSE Goto(i, [op EXCEPT !.pc = "ensureHeader"], sheets)

AppendEnsureHeader(i) ==
    LET op == Read(ops[i], schemas[ops[i].model].writeRange)
        rawRows == getSheetValues(sheets, schemas[op.model].writeRange)
    IN  /\ ops[i].kind = "append" /\ ops[i].pc = "ensureHeader"
        /\ Goto(i, [op EXCEPT !.pc = IF Len(rawRows) = 0 THEN "writeHeader" ELSE "append"], sheets)

AppendWriteHeader(i) ==
    LET s == schemas[ops[i].model]
        op == Put(ops[i], s.writeRange, <<s.headers>>)
    IN  /\ ops[i].kind = "append" /\ ops[i].pc = "writeHeader"
        /\ Goto(i, [op EXCEPT !.pc = "append"],
                updateSheet(sheets, s.writeRange, <<s.headers>>, FALSE))

AppendRows(i) ==
    LET s == schemas[ops[i].model]
        values == [k \in 1..Len(ops[i].list) |-> toRow(s, ops[i].list[k])]
        op == Post(ops[i], s.writeRange, values)
    IN  /\ ops[i].kind = "append" /\ ops[i].pc = "append"
        /\ Settle(i, op, Ok(UNDEF), updateSheet(sheets, s.writeRange, values, TRUE))

\* ------------------------------------------------------------------ batchSync, raw

\* client.batchSync(payload), at the call.
IssueBatchSync(payload) ==
    LET op == [Idle EXCEPT !.kind = "batchSync", !.rec = payload]
    IN  assertWritable(op, Enqueue(op))

FirstClearRange == <<schemas[ModelKeys[1]].clearRange>>

\* batchSync: clearRanges and data, one entry per registered schema.
BatchClearRanges == [k \in 1..Len(ModelKeys) |-> schemas[ModelKeys[k]].clearRange]

BatchData(payload) ==
    [k \in 1..Len(ModelKeys) |->
        [range |-> schemas[ModelKeys[k]].writeRange,
         values |-> HeaderAndRows(schemas[ModelKeys[k]],
                                  IF ModelKeys[k] \in DOMAIN payload THEN payload[ModelKeys[k]] ELSE <<>>)]]

BatchSyncBegin(i) ==
    /\ ops[i].kind = "batchSync" /\ ops[i].pc = "queued" /\ Resolved(ops[i].prev)
    /\ Goto(i, [ops[i] EXCEPT !.pc = "batchClear", !.before = sheets], sheets)

BatchSyncClear(i) ==
    LET op == [ops[i] EXCEPT !.calls = Append(@, [fn |-> "batchClear", ranges |-> BatchClearRanges])]
    IN  /\ ops[i].kind = "batchSync" /\ ops[i].pc = "batchClear"
        /\ Goto(i, [op EXCEPT !.pc = "batchUpdate"], batchClear(sheets, BatchClearRanges))

BatchSyncUpdate(i) ==
    LET op == [ops[i] EXCEPT !.calls = Append(@, [fn |-> "batchUpdate", data |-> BatchData(ops[i].rec)])]
    IN  /\ ops[i].kind = "batchSync" /\ ops[i].pc = "batchUpdate"
        /\ Settle(i, op, Ok(UNDEF), batchUpdate(sheets, BatchData(op.rec)))

\* client.raw.writeRange(range, values), at the call.
IssueRawWriteRange(range, values) ==
    LET op == [Idle EXCEPT !.kind = "raw.writeRange", !.rec = range, !.list = values]
    IN  assertWritable(op, Enqueue(op))

RawWriteRangeBegin(i) ==
    /\ ops[i].kind = "raw.writeRange" /\ ops[i].pc = "queued" /\ Resolved(ops[i].prev)
    /\ Goto(i, [ops[i] EXCEPT !.pc = "write", !.before = sheets], sheets)

RawWriteRange(i) ==
    LET op == Put(ops[i], ops[i].rec, ops[i].list)
    IN  /\ ops[i].kind = "raw.writeRange" /\ ops[i].pc = "write"
        /\ Settle(i, op, Ok(UNDEF), updateSheet(sheets, op.rec, op.list, FALSE))

\* client.raw.clearRange(range), at the call.
IssueRawClearRange(range) ==
    LET op == [Idle EXCEPT !.kind = "raw.clearRange", !.rec = range]
    IN  assertWritable(op, Enqueue(op))

RawClearRangeBegin(i) ==
    /\ ops[i].kind = "raw.clearRange" /\ ops[i].pc = "queued" /\ Resolved(ops[i].prev)
    /\ Goto(i, [ops[i] EXCEPT !.pc = "clear", !.before = sheets], sheets)

RawClearRange(i) ==
    LET op == Clear(ops[i], ops[i].rec)
    IN  /\ ops[i].kind = "raw.clearRange" /\ ops[i].pc = "clear"
        /\ Settle(i, op, Ok(UNDEF), clearRange(sheets, op.rec))


\* ------------------------------------------------------------------ findMany, readAll, loadRelated

\* findRelationToModel: the first relation of relatedSchema whose target is
\* the first registered model stored in targetSchema's tab; 0 when there is none.
findRelationToModel(relatedSchema, targetSchema) ==
    LET targetKey == IndexOf([k \in 1..Len(ModelKeys) |-> schemas[ModelKeys[k]].sheetName],
                             targetSchema.sheetName)
        found == {k \in 1..Len(relatedSchema.relations) :
                    targetKey # 0 /\ relatedSchema.relations[k].targetModel = ModelKeys[targetKey]}
    IN  IF found = {} THEN 0 ELSE CHOOSE k \in found : \A j \in found : k <= j

NoRelatedSchemaKeys(include) == <<>>

\* Object.keys(includeMap) that name a registered schema.
RelatedSchemaKeys(include) == SelectSeq(include, LAMBDA key : key \in DOMAIN schemas)

AttachAll(parent, relatedKey, relatedRecords, relation, pk) == relatedRecords

\* parent[relatedKey] = relation ? relatedRecords.filter(child =>
\*     String(child[relation.sourceField]) === String(parentPk)) : []
Attach(parent, relatedKey, relatedRecords, relation, pk) ==
    IF relation # 0
    THEN SelectSeq(relatedRecords,
                   LAMBDA child : String(Get(child, schemas[relatedKey].relations[relation].sourceField))
                                    = String(Get(parent, pk)))
    ELSE <<>>

\* loadRelated after batchGetValues: the loop over relatedSchemaKeys from k on.
RECURSIVE AttachRelated(_, _, _, _, _)
AttachRelated(records, s, keys, k, sh) ==
    IF k > Len(keys) THEN records
    ELSE LET relatedKey == keys[k]
             relatedSchema == schemas[relatedKey]
             relation == findRelationToModel(relatedSchema, s)
             relatedRecords == ParseRows(relatedSchema, getSheetValues(sh, relatedSchema.readRange))
             enhanced == [n \in 1..Len(records) |->
                            Spread(records[n],
                                   [f \in {relatedKey} |->
                                        Attach(records[n], relatedKey, relatedRecords, relation, s.primaryKey)])]
         IN  AttachRelated(enhanced, s, keys, k + 1, sh)

\* repo.findMany(filter, {include}) and repo.readAll({include}), at the call:
IssueReadLocked(kind, m, filter, include) ==
    /\ FreeSlot # 0
    /\ ops' = [ops EXCEPT ![FreeSlot] = [Idle EXCEPT !.kind = kind, !.model = m, !.id = filter,
                                                     !.list = include, !.pc = "read",
                                                     !.prev = writeLock]]
    /\ writeLock' = FreeSlot
    /\ last' = NoEvent
    /\ UNCHANGED <<sheets, ctx>>

\* reads take no lock.  filter is UNDEF or the key the filter keeps.
IssueRead(kind, m, filter, include) ==
    /\ FreeSlot # 0
    /\ ops' = [ops EXCEPT ![FreeSlot] = [Idle EXCEPT !.kind = kind, !.model = m, !.id = filter,
                                                     !.list = include, !.pc = "read"]]
    /\ last' = NoEvent
    /\ UNCHANGED <<sheets, writeLock, ctx>>

\* repo.findById(id), at the call: null at once for a schema without primaryKey.
IssueFindById(m, id) ==
    LET op == [Idle EXCEPT !.kind = "findById", !.model = m, !.id = id]
    IN  IF schemas[m].primaryKey = UNDEF
        THEN Reject(op, Ok(NULL))
        ELSE /\ FreeSlot # 0
             /\ ops' = [ops EXCEPT ![FreeSlot] = [op EXCEPT !.pc = "read"]]
             /\ last' = NoEvent
             /\ UNCHANGED <<sheets, writeLock, ctx>>

\* findById: readAllRaw, then records.find(r => r[pk] === id) ?? null.
FindByIdRead(i) ==
    LET s == schemas[ops[i].model]
        op == Read(ops[i], s.readRange)
        found == SelectSeq(readAllRaw(sheets, s), LAMBDA r : Get(r, s.primaryKey) = op.id)
    IN  /\ ops[i].kind = "findById" /\ ops[i].pc = "read"
        /\ Settle(i, op, Ok(IF found = <<>> THEN NULL ELSE found[1]), sheets)

\* findMany and readAll: readAllRaw, the filter, and loadRelated up to batchGetValues.
ReadRecords(i) ==
    LET s == schemas[ops[i].model]
        op == Read(ops[i], s.readRange)
        all == readAllRaw(sheets, s)
        records == IF op.kind = "findMany" /\ op.id # UNDEF
                   THEN SelectSeq(all, LAMBDA r : Get(r, s.primaryKey) = op.id)
                   ELSE all
    IN  /\ ops[i].kind \in {"findMany", "readAll"} /\ ops[i].pc = "read"
        /\ IF Len(op.list) = 0 \/ Len(RelatedSchemaKeys(op.list)) = 0
           THEN Settle(i, op, Ok(records), sheets)
           ELSE Goto(i, [op EXCEPT !.pc = "load", !.records = records], sheets)

\* loadRelated: one batchGetValues of the related read ranges, then the attaching.
LoadRelated(i) ==
    LET s == schemas[ops[i].model]
        keys == RelatedSchemaKeys(ops[i].list)
        op == [ops[i] EXCEPT !.calls = Append(@, [fn |-> "batchGetValues",
                    ranges |-> [k \in 1..Len(keys) |-> schemas[keys[k]].readRange]])]
    IN  /\ ops[i].kind \in {"findMany", "readAll"} /\ ops[i].pc = "load"
        /\ Settle(i, op, Ok(IF s.primaryKey = UNDEF THEN op.records
                            ELSE AttachRelated(op.records, s, keys, 1, sheets)), sheets)

\* ------------------------------------------------------------------ migrations

MIGRATIONS_SHEET == "_genjutsu_migrations"
MIGRATIONS_RANGE == [sheet |-> MIGRATIONS_SHEET, row |-> 2]

\* The range `${MIGRATIONS_SHEET}!A1:C` the ledger rows are appended to.
MigrationsAppendRange == [sheet |-> MIGRATIONS_SHEET, row |-> 1]

NaN == -1

\* Number(cell): a ledger cell holds the text of a version.
Number(v) ==
    IF \E n \in 0..MaxVersion : ToString(n) = v
    THEN CHOOSE n \in 0..MaxVersion : ToString(n) = v
    ELSE IF v = NULL \/ v = "" THEN 0 ELSE NaN

\* The tab with cell (row 1, column colIndex, from 0) set to `name`.
SetHeaderCell(rows, colIndex, name) ==
    LET first == IF Len(rows) >= 1 THEN rows[1] ELSE <<>>
        width == IF Len(first) > colIndex + 1 THEN Len(first) ELSE colIndex + 1
        header == [c \in 1..width |->
                    IF c = colIndex + 1 THEN name ELSE IF c <= Len(first) THEN first[c] ELSE NULL]
    IN  <<header>> \o (IF Len(rows) >= 1 THEN Tail(rows) ELSE <<>>)

\* insertDimension COLUMNS [colIndex, colIndex + 1): a blank column in front of
\* column colIndex of every row that reaches it.
InsertColumn(rows, colIndex) ==
    [r \in 1..Len(rows) |->
        IF Len(rows[r]) > colIndex
        THEN SubSeq(rows[r], 1, colIndex) \o <<NULL>> \o SubSeq(rows[r], colIndex + 1, Len(rows[r]))
        ELSE rows[r]]

\* structuralBatchUpdate([{addSheet: {properties: {title}}}]) on a spreadsheet
\* without a tab of that title.
AddSheet(sh, title) ==
    [tab \in DOMAIN sh \cup {title} |-> IF tab \in DOMAIN sh THEN sh[tab] ELSE <<>>]

UpNeverThrows(up, sheetIdMap) == FALSE

\* The procedures of the migrations below, each one call of the migration
\* context: what the call throws before any request (resolveSheetId), if anything.
\* createSheet resolves no sheet id.
UpThrows(up, sheetIdMap) == up.fn # "createSheet" /\ up.sheet \notin sheetIdMap

\* deleteDimension COLUMNS [columnIndex, columnIndex + 1)
RemoveColumn(rows, columnIndex) ==
    [r \in 1..Len(rows) |->
        IF Len(rows[r]) > columnIndex
        THEN SubSeq(rows[r], 1, columnIndex) \o SubSeq(rows[r], columnIndex + 2, Len(rows[r]))
        ELSE rows[r]]

\* updateSheetProperties title: the tab keeps its rows under the new title.
RenameSheet(sh, oldName, newName) ==
    [tab \in (DOMAIN sh \ {oldName}) \cup {newName} |-> IF tab = newName THEN sh[oldName] ELSE sh[tab]]

\* The spreadsheet refuses a second tab of one title.
UpRefused(sh, up) ==
    \/ up.fn = "createSheet" /\ up.sheet \in DOMAIN sh
    \/ up.fn = "renameSheet" /\ up.name \in DOMAIN sh

\* The spreadsheet after the structuralBatchUpdate of the call.
UpEffect(sh, up) ==
    IF up.fn = "addColumn"
    THEN [sh EXCEPT ![up.sheet] = SetHeaderCell(InsertColumn(@, up.colIndex), up.colIndex, up.name)]
    ELSE IF up.fn = "createSheet" THEN AddSheet(sh, up.sheet)
    ELSE IF up.fn = "removeColumn" THEN [sh EXCEPT ![up.sheet] = RemoveColumn(@, up.colIndex)]
    ELSE IF up.fn = "renameSheet" THEN RenameSheet(sh, up.sheet, up.name)
    ELSE [sh EXCEPT ![up.sheet] = SetHeaderCell(@, up.colIndex, up.name)]

\* { version: 1, name: "first",  up: ctx => ctx.addColumn("Orders", "note") }
\* { version: 2, name: "second", up: ctx => ctx.renameColumn("Orders", 0, "memo") }
\* { version: 3, name: "third",  up: ctx => ctx.renameColumn("Nope", 0, "x") }
M1 == [version |-> 1, name |-> "first",
       up |-> [fn |-> "addColumn", sheet |-> "Orders", colIndex |-> 0, name |-> "note"]]
M2 == [version |-> 2, name |-> "second",
       up |-> [fn |-> "renameColumn", sheet |-> "Orders", colIndex |-> 0, name |-> "memo"]]
M3 == [version |-> 3, name |-> "third",
       up |-> [fn |-> "renameColumn", sheet |-> "Nope", colIndex |-> 0, name |-> "x"]]

\* { version: 4, name: "fourth", up: ctx => ctx.addColumn("Items", "tag") }
M4 == [version |-> 4, name |-> "fourth",
       up |-> [fn |-> "addColumn", sheet |-> "Items", colIndex |-> 0, name |-> "tag"]]

\* Migrations whose procedures use the tab an earlier one created or renamed:
\* { version: 1, name: "archive",        up: ctx => ctx.createSheet("Archive") }
\* { version: 2, name: "archive note",   up: ctx => ctx.addColumn("Archive", "note") }
\* { version: 3, name: "stock",          up: ctx => ctx.renameSheet("Items", "Stock") }
\* { version: 4, name: "stock sku",      up: ctx => ctx.renameColumn("Stock", 0, "sku") }
\* { version: 2, name: "drop customer",  up: ctx => ctx.removeColumn("Orders", 1) }
Steps ==
    [createSheet |-> [version |-> 1, name |-> "archive",
                      up |-> [fn |-> "createSheet", sheet |-> "Archive", colIndex |-> 0, name |-> ""]],
     addColumn |-> [version |-> 2, name |-> "archive note",
                    up |-> [fn |-> "addColumn", sheet |-> "Archive", colIndex |-> 0, name |-> "note"]],
     renameSheet |-> [version |-> 3, name |-> "stock",
                      up |-> [fn |-> "renameSheet", sheet |-> "Items", colIndex |-> 0, name |-> "Stock"]],
     renameColumn |-> [version |-> 4, name |-> "stock sku",
                       up |-> [fn |-> "renameColumn", sheet |-> "Stock", colIndex |-> 0, name |-> "sku"]],
     removeColumn |-> [version |-> 2, name |-> "drop customer",
                       up |-> [fn |-> "removeColumn", sheet |-> "Orders", colIndex |-> 1, name |-> ""]]]

migrationError(version, name, cause) ==
    [kind |-> "MIGRATION_ERROR", migrationVersion |-> version, migrationName |-> name,
     cause |-> cause]

\* What resolveSheetId throws.
SheetNotFound(sheetName) == schemaError("Sheet not found in spreadsheet")

apiError(message) == [kind |-> "API_ERROR", message |-> message]

NoDuplicateVersion(migrations) == FALSE

\* for (const m of migrations) if (versions.has(m.version)) throw
HasDuplicateVersion(migrations) ==
    \E a, b \in 1..Len(migrations) : a < b /\ migrations[a].version = migrations[b].version

Unsorted(migrations) == migrations

\* [...migrations].sort((a, b) => a.version - b.version)
RECURSIVE SortByVersion(_)
SortByVersion(migrations) ==
    IF migrations = <<>> THEN <<>>
    ELSE LET least == CHOOSE k \in 1..Len(migrations) :
                        \A j \in 1..Len(migrations) :
                            \/ migrations[k].version < migrations[j].version
                            \/ (migrations[k].version = migrations[j].version /\ k <= j)
         IN  <<migrations[least]>>
                \o SortByVersion(SubSeq(migrations, 1, least - 1)
                                    \o SubSeq(migrations, least + 1, Len(migrations)))

\* The ledger rows the spreadsheet holds and the runs under way may still add.
LedgerInUse ==
    (IF MIGRATIONS_SHEET \in DOMAIN sheets THEN Len(sheets[MIGRATIONS_SHEET]) ELSE 0)
        + Sum([i \in Slots |-> IF ops[i].kind = "migrate"
                               THEN (IF ops[i].pc \in {"up", "record"}
                                     THEN Len(ops[i].records) - ops[i].index + 1
                                     ELSE Len(ops[i].list))
                               ELSE 0], Slots)

\* client.migrate(migrations), at the call, without the write lock:
\* runMigrations up to its first await.  prev records the tail of the chain at
\* the call, which the run does not wait for; twin records how the run of the same
\* migrations that the call directly follows, with no call under way, settled.
IssueMigrate(migrations) ==
    LET op == [Idle EXCEPT !.kind = "migrate", !.list = migrations, !.before = sheets,
                           !.prev = writeLock,
                           !.twin = IF /\ last.kind = "migrate" /\ last.list = migrations
                                       /\ \A j \in Slots : ops[j].kind = "idle"
                                    THEN last.result.kind ELSE "none"]
    IN  /\ LedgerInUse + Len(migrations) <= MaxLedger
        /\ FreeSlot # 0
        /\ assertWritable(op,
                IF HasDuplicateVersion(migrations)
                THEN Reject(op, schemaError("Migrations have duplicate version number"))
                ELSE /\ ops' = [ops EXCEPT ![FreeSlot] =
                                 [op EXCEPT !.pc = "metadata", !.records = SortByVersion(migrations)]]
                     /\ last' = NoEvent
                     /\ UNCHANGED <<sheets, writeLock, ctx>>)

\* getSpreadsheetMetadata: sheetIdMap (op.rec) gets the titles of the tabs.
MigrateMetadata(i) ==
    LET op == [ops[i] EXCEPT !.calls = Append(@, [fn |-> "getSpreadsheetMetadata"]),
                             !.rec = DOMAIN sheets]
    IN  /\ ops[i].kind = "migrate" /\ ops[i].pc = "metadata"
        /\ Goto(i, [op EXCEPT !.pc = IF MIGRATIONS_SHEET \in op.rec THEN "readApplied"
                                     ELSE "createLedger"], sheets)

\* structuralBatchUpdate addSheet of the ledger; the spreadsheet refuses a
\* second tab of one title.
MigrateCreateLedger(i) ==
    LET op == [ops[i] EXCEPT !.calls = Append(@, [fn |-> "structuralBatchUpdate",
                                                  addSheet |-> MIGRATIONS_SHEET])]
    IN  /\ ops[i].kind = "migrate" /\ ops[i].pc = "createLedger"
        /\ IF MIGRATIONS_SHEET \in DOMAIN sheets
           THEN Settle(i, op, apiError("Sheets API error: 400"), sheets)
           ELSE Goto(i, [op EXCEPT !.pc = "refresh"], AddSheet(sheets, MIGRATIONS_SHEET))

\* The metadata is read again after the ledger is created.
MigrateRefresh(i) ==
    LET op == [ops[i] EXCEPT !.calls = Append(@, [fn |-> "getSpreadsheetMetadata"]),
                             !.rec = @ \cup DOMAIN sheets]
    IN  /\ ops[i].kind = "migrate" /\ ops[i].pc = "refresh"
        /\ Goto(i, [op EXCEPT !.pc = "readApplied"], sheets)

\* The versions the rows of MIGRATIONS_RANGE hold.
AppliedVersions(rows) ==
    {Number(IF Len(rows[r]) >= 1 THEN rows[r][1] ELSE UNDEF) : r \in 1..Len(rows)} \ {NaN}

\* sorted.filter(m => !appliedVersions.has(m.version))
Pending(sorted, appliedVersions) ==
    SelectSeq(sorted, LAMBDA m : m.version \notin appliedVersions)

\* The applied versions are read and the pending migrations kept.
MigrateReadApplied(i) ==
    LET op == Read(ops[i], MIGRATIONS_RANGE)
        pending == Pending(op.records, AppliedVersions(getSheetValues(sheets, MIGRATIONS_RANGE)))
    IN  /\ ops[i].kind = "migrate" /\ ops[i].pc = "readApplied"
        /\ IF Len(pending) = 0
           THEN Settle(i, op, Ok(UNDEF), sheets)
           ELSE Goto(i, [op EXCEPT !.pc = "up", !.records = pending, !.index = 1], sheets)

\* await m.up(mCtx) of the pending migration at op.index.
MigrateUp(i) ==
    LET m == ops[i].records[ops[i].index]
        op == [ops[i] EXCEPT !.calls = Append(@, [fn |-> "up", version |-> m.version])]
    IN  /\ ops[i].kind = "migrate" /\ ops[i].pc = "up"
        /\ IF UpThrows(m.up, op.rec)
           THEN Settle(i, op, migrationError(m.version, m.name, SheetNotFound(m.up.sheet)), sheets)
           ELSE IF UpRefused(sheets, m.up)
           THEN Settle(i, op, migrationError(m.version, m.name, apiError("Sheets API error: 400")), sheets)
           ELSE Goto(i, [op EXCEPT !.pc = "record"], UpEffect(sheets, m.up))

\* The ledger row of the migration that has run is appended.
MigrateRecord(i) ==
    LET m == ops[i].records[ops[i].index]
        values == <<<<ToString(m.version), m.name, "timestamp">>>>
        op == Post(ops[i], MigrationsAppendRange, values)
        sh == updateSheet(sheets, MigrationsAppendRange, values, TRUE)
    IN  /\ ops[i].kind = "migrate" /\ ops[i].pc = "record"
        /\ IF op.index = Len(op.records)
           THEN Settle(i, op, Ok(UNDEF), sh)
           ELSE Goto(i, [op EXCEPT !.pc = "up", !.index = @ + 1], sh)


\* ------------------------------------------------------------------ transport.ts

\* config.auth: a token, or a function that resolves to one.
Provider == "() => Promise<string>"

TypeOf(auth) ==
    IF auth = UNDEF THEN "undefined" ELSE IF auth = Provider THEN "function" ELSE "string"

authError(message) == [kind |-> "AUTH_ERROR", message |-> message]
\* rateLimitError(message, retryAfterMs, cause)
rateLimitError(message, retryAfterMs) ==
    [kind |-> "RATE_LIMIT", message |-> message, retryAfterMs |-> retryAfterMs]
networkError(message) == [kind |-> "NETWORK_ERROR", message |-> message]

\* wrapHttpError(status, body, cause)
wrapHttpError(status) ==
    IF status = 401 THEN authError("Authentication failed")
    ELSE IF status = 403 THEN permissionError("Permission denied")
    ELSE IF status = 429 THEN rateLimitError("Rate limited", UNDEF)
    ELSE apiError("Sheets API error")

\* What a fetch comes to: it throws (no response), or resolves to a response
\* with a status and, on 429, with or without a Retry-After header.
Statuses == {200, 401, 403, 429, 500}
RetryAfterHeaders == {UNDEF, "2"}
Responses ==
    [threw : {FALSE}, status : Statuses \ {429}, retryAfter : {UNDEF}]
        \cup [threw : {FALSE}, status : {429}, retryAfter : RetryAfterHeaders]
        \cup {[threw |-> TRUE, status |-> 0, retryAfter |-> UNDEF]}

\* parseInt(header, 10), for a header of one character.
parseInt(text) ==
    IF \E n \in 0..9 : ToString(n) = text THEN CHOOSE n \in 0..9 : ToString(n) = text ELSE NaN

\* parseRetryAfterMs(res): the seconds of the header, in milliseconds.
parseRetryAfterMs(res) ==
    IF res.retryAfter = UNDEF THEN UNDEF
    ELSE IF parseInt(res.retryAfter) = NaN THEN UNDEF
    ELSE parseInt(res.retryAfter) * 1000

\* if (!res.ok): 429 carries the parsed Retry-After, the rest is wrapHttpError.
HttpError(res) ==
    IF res.status = 429 THEN rateLimitError("Rate limited", parseRetryAfterMs(res))
    ELSE wrapHttpError(res.status)

\* res.ok
ResponseOk(res) == res.status \in 200..299

\* The calls of the provider and the fetches a call has made.
AuthCalls(calls) == SelectSeq(calls, LAMBDA c : c.fn = "auth")
Fetches(calls) == SelectSeq(calls, LAMBDA c : c.fn = "fetch")

\* ctx.auth(): the provider resolves to a token it has not given this call before.
CallProvider(op) ==
    [op EXCEPT !.calls = Append(@, [fn |-> "auth",
                                    token |-> "token" \o ToString(Len(AuthCalls(op.calls)) + 1)])]

\* buildAuthHeaders(ctx)
buildAuthHeaders(op) ==
    IF TypeOf(ctx.auth) = "undefined" THEN [op EXCEPT !.entity = [Authorization |-> UNDEF]]
    ELSE IF TypeOf(ctx.auth) = "function"
    THEN LET asked == CallProvider(op)
         IN  [asked EXCEPT !.entity = [Authorization |-> asked.calls[Len(asked.calls)].token]]
    ELSE [op EXCEPT !.entity = [Authorization |-> ctx.auth]]

\* buildApiKeyParam(ctx)
buildApiKeyParam == IF ctx.apiKey # UNDEF /\ ctx.auth = UNDEF THEN ctx.apiKey ELSE UNDEF

\* fetch(url, init), as a call records it.
Fetch(op, res) ==
    [op EXCEPT !.calls = Append(@, [fn |-> "fetch", range |-> op.rec,
                                    Authorization |-> op.entity.Authorization,
                                    key |-> buildApiKeyParam, response |-> res])]

RetryNever(res, auth) == FALSE
RetryEvery401(res, auth) == res.status = 401

\* if (res.status === 401 && retryOn401 && typeof ctx.auth === "function")
RetryOn401(res, auth) == res.status = 401 /\ TypeOf(auth) = "function"

\* client.raw.readRange(range), at the call: getSheetValues up to
\* await buildAuthHeaders(ctx).
IssueRawReadRange(range) ==
    /\ FreeSlot # 0
    /\ ops' = [ops EXCEPT ![FreeSlot] = [Idle EXCEPT !.kind = "raw.readRange", !.rec = range,
                                                     !.pc = "headers"]]
    /\ last' = NoEvent
    /\ UNCHANGED <<sheets, writeLock, ctx>>

\* buildAuthHeaders: the token of the first attempt.
RawReadRangeHeaders(i) ==
    /\ ops[i].kind = "raw.readRange" /\ ops[i].pc = "headers"
    /\ Goto(i, [buildAuthHeaders(ops[i]) EXCEPT !.pc = "fetch"], sheets)

\* fetchWithErrorHandling, the first attempt.
RawReadRangeFetch(i) ==
    /\ ops[i].kind = "raw.readRange" /\ ops[i].pc = "fetch"
    /\ \E res \in Responses :
        LET op == Fetch(ops[i], res)
        IN  IF res.threw THEN Settle(i, op, networkError("Network request failed"), sheets)
            ELSE IF RetryOn401(res, ctx.auth) THEN Goto(i, [op EXCEPT !.pc = "refresh"], sheets)
            ELSE IF ~ResponseOk(res) THEN Settle(i, op, HttpError(res), sheets)
            ELSE Settle(i, op, Ok(getSheetValues(sheets, op.rec)), sheets)

\* const freshToken = await ctx.auth(); retryInit carries it.
RawReadRangeRefresh(i) ==
    /\ ops[i].kind = "raw.readRange" /\ ops[i].pc = "refresh"
    /\ LET asked == CallProvider(ops[i])
       IN  Goto(i, [asked EXCEPT !.entity = [Authorization |-> asked.calls[Len(asked.calls)].token],
                                 !.pc = "retry"], sheets)

\* fetchWithErrorHandling, the retry.
RawReadRangeRetry(i) ==
    /\ ops[i].kind = "raw.readRange" /\ ops[i].pc = "retry"
    /\ \E res \in Responses :
        LET op == Fetch(ops[i], res)
        IN  IF res.threw THEN Settle(i, op, networkError("Network request failed on retry"), sheets)
            ELSE IF ~ResponseOk(res) THEN Settle(i, op, HttpError(res), sheets)
            ELSE Settle(i, op, Ok(getSheetValues(sheets, op.rec)), sheets)

\* The transport operations and the requests they are called with.
TransportOps == {"getSheetValues", "batchGetValues", "updateSheet", "clearRange", "batchClear",
                 "batchUpdate", "structuralBatchUpdate", "getSpreadsheetMetadata",
                 "createSpreadsheet"}

Requests ==
    {[fn |-> "getSheetValues", range |-> schemas.Orders.readRange],
     [fn |-> "batchGetValues", ranges |-> <<schemas.Orders.readRange, schemas.Items.readRange>>],
     [fn |-> "updateSheet", range |-> schemas.Orders.writeRange,
      values |-> <<schemas.Orders.headers, <<"b", "y">>>>, append |-> FALSE],
     [fn |-> "updateSheet", range |-> schemas.Orders.writeRange,
      values |-> <<<<"c", "z">>>>, append |-> TRUE],
     [fn |-> "clearRange", range |-> schemas.Orders.clearRange],
     [fn |-> "batchClear", ranges |-> <<schemas.Orders.clearRange, schemas.Items.clearRange>>],
     [fn |-> "batchUpdate",
      data |-> <<[range |-> schemas.Items.writeRange, values |-> <<schemas.Items.headers>>]>>],
     [fn |-> "structuralBatchUpdate",
      requests |-> <<[repeatCell |-> [sheet |-> "Orders", cell |-> [bold |-> TRUE]]]>>],
     [fn |-> "getSpreadsheetMetadata"],
     [fn |-> "createSpreadsheet", title |-> "Shop"]}

\* What the operation resolves to when the store answers 2xx.
Returned(sh, req) ==
    IF req.fn = "getSheetValues" THEN getSheetValues(sh, req.range)
    ELSE IF req.fn = "batchGetValues"
    THEN [k \in 1..Len(req.ranges) |-> getSheetValues(sh, req.ranges[k])]
    ELSE IF req.fn = "getSpreadsheetMetadata" THEN DOMAIN sh
    ELSE IF req.fn = "createSpreadsheet" THEN [spreadsheetId |-> "new"]
    ELSE UNDEF

\* The spreadsheet after the request the store answers 2xx.
Stored(sh, req) ==
    IF req.fn = "updateSheet" THEN updateSheet(sh, req.range, req.values, req.append)
    ELSE IF req.fn = "clearRange" THEN clearRange(sh, req.range)
    ELSE IF req.fn = "batchClear" THEN batchClear(sh, req.ranges)
    ELSE IF req.fn = "batchUpdate" THEN batchUpdate(sh, req.data)
    ELSE sh

\* A transport operation, at the call: up to the await of the token.
IssueTransport(req) ==
    /\ FreeSlot # 0
    /\ req.fn = "createSpreadsheet" => ctx.auth # UNDEF
    /\ (req.fn = "updateSheet" /\ req.append) =>
            Len(sheets["Orders"]) + Cardinality({i \in Slots : ops[i].kind = "updateSheet"}) <= MaxRows
    /\ ops' = [ops EXCEPT ![FreeSlot] = [Idle EXCEPT !.kind = req.fn, !.rec = req, !.pc = "headers"]]
    /\ last' = NoEvent
    /\ UNCHANGED <<sheets, writeLock, ctx>>

\* buildAuthHeaders(ctx); in createSpreadsheet, resolveToken(auth).
TransportHeaders(i) ==
    /\ ops[i].kind \in TransportOps /\ ops[i].pc = "headers"
    /\ Goto(i, [buildAuthHeaders(ops[i]) EXCEPT !.pc = "fetch"], sheets)

\* The first attempt. createSpreadsheet calls fetch itself: what fetch throws
\* leaves the call as it is, and every status that is not 2xx is an apiError.
TransportFetch(i) ==
    /\ ops[i].kind \in TransportOps /\ ops[i].pc = "fetch"
    /\ \E res \in Responses :
        LET op == Fetch(ops[i], res)
        IN  IF op.kind = "createSpreadsheet"
            THEN IF res.threw THEN Settle(i, op, [kind |-> "TypeError", message |-> "fetch failed"], sheets)
                 ELSE IF ~ResponseOk(res)
                 THEN Settle(i, op, apiError("Failed to create spreadsheet"), sheets)
                 ELSE Settle(i, op, Ok(Returned(sheets, op.rec)), sheets)
            ELSE IF res.threw THEN Settle(i, op, networkError("Network request failed"), sheets)
            ELSE IF RetryOn401(res, ctx.auth) THEN Goto(i, [op EXCEPT !.pc = "refresh"], sheets)
            ELSE IF ~ResponseOk(res) THEN Settle(i, op, HttpError(res), sheets)
            ELSE Settle(i, op, Ok(Returned(sheets, op.rec)), Stored(sheets, op.rec))

\* const freshToken = await ctx.auth(); retryInit carries it.
TransportRefresh(i) ==
    /\ ops[i].kind \in TransportOps /\ ops[i].pc = "refresh"
    /\ LET asked == CallProvider(ops[i])
       IN  Goto(i, [asked EXCEPT !.entity = [Authorization |-> asked.calls[Len(asked.calls)].token],
                                 !.pc = "retry"], sheets)

\* The retry.
TransportRetry(i) ==
    /\ ops[i].kind \in TransportOps /\ ops[i].pc = "retry"
    /\ \E res \in Responses :
        LET op == Fetch(ops[i], res)
        IN  IF res.threw THEN Settle(i, op, networkError("Network request failed on retry"), sheets)
            ELSE IF ~ResponseOk(res) THEN Settle(i, op, HttpError(res), sheets)
            ELSE Settle(i, op, Ok(Returned(sheets, op.rec)), Stored(sheets, op.rec))

\* ------------------------------------------------------------------ ensureSchema, applyFormatting

\* What the store answers a request that changes the spreadsheet and carries
\* no Authorization header.
Unauthenticated == {401, 403}

\* structuralBatchUpdate of one addSheet request per title.
RECURSIVE AddSheets(_, _)
AddSheets(sh, titles) ==
    IF titles = <<>> THEN sh ELSE AddSheets(AddSheet(sh, Head(titles)), Tail(titles))

\* client.ensureSchema(), at the call: up to await getSpreadsheetMetadata(ctx).
IssueEnsureSchema ==
    /\ FreeSlot # 0
    /\ ops' = [ops EXCEPT ![FreeSlot] = [Idle EXCEPT !.kind = "ensureSchema", !.pc = "metadata"]]
    /\ last' = NoEvent
    /\ UNCHANGED <<sheets, writeLock, ctx>>

\* getSpreadsheetMetadata: toAdd, the sheet names of the schemas without a tab.
EnsureSchemaMetadata(i) ==
    LET op == [ops[i] EXCEPT !.calls = Append(@, [fn |-> "getSpreadsheetMetadata"])]
        names == [k \in 1..Len(ModelKeys) |-> schemas[ModelKeys[k]].sheetName]
        toAdd == SelectSeq(names, LAMBDA t : t \notin DOMAIN sheets)
    IN  /\ ops[i].kind = "ensureSchema" /\ ops[i].pc = "metadata"
        /\ IF Len(toAdd) = 0
           THEN Settle(i, op, Ok(UNDEF), sheets)
           ELSE Goto(i, [op EXCEPT !.pc = "addSheets", !.list = toAdd], sheets)

\* structuralBatchUpdate(toAdd.map(addSheet)); the spreadsheet refuses a
\* second tab of one title.
EnsureSchemaAddSheets(i) ==
    LET op == [ops[i] EXCEPT !.calls = Append(@, [fn |-> "structuralBatchUpdate",
                                                  addSheet |-> ops[i].list])]
    IN  /\ ops[i].kind = "ensureSchema" /\ ops[i].pc = "addSheets"
        /\ IF isReadOnly
           THEN \E status \in Unauthenticated : Settle(i, op, wrapHttpError(status), sheets)
           ELSE IF \E t \in Range(op.list) : t \in DOMAIN sheets
           THEN Settle(i, op, apiError("Sheets API error: 400"), sheets)
           ELSE Settle(i, op, Ok(UNDEF), AddSheets(sheets, op.list))

hasAnyFormatting == \E k \in 1..Len(ModelKeys) : schemas[ModelKeys[k]].headerFormatting # <<>>

\* client.applyFormatting(), at the call: up to await getSpreadsheetMetadata(ctx).
IssueApplyFormatting ==
    LET op == [Idle EXCEPT !.kind = "applyFormatting"]
    IN  IF hasAnyFormatting
        THEN /\ FreeSlot # 0
             /\ ops' = [ops EXCEPT ![FreeSlot] = [op EXCEPT !.pc = "metadata"]]
             /\ last' = NoEvent
             /\ UNCHANGED <<sheets, writeLock, ctx>>
        ELSE Reject(op, Ok(UNDEF))

\* getSpreadsheetMetadata: requests, one repeatCell of the header row for
\* every schema with header formatting whose tab exists.
ApplyFormattingMetadata(i) ==
    LET op == [ops[i] EXCEPT !.calls = Append(@, [fn |-> "getSpreadsheetMetadata"])]
        formatted == SelectSeq(ModelKeys, LAMBDA m : /\ schemas[m].sheetName \in DOMAIN sheets
                                                     /\ schemas[m].headerFormatting # <<>>)
        requests == [k \in 1..Len(formatted) |->
                        [sheet |-> schemas[formatted[k]].sheetName,
                         endColumnIndex |-> Len(schemas[formatted[k]].headers),
                         cell |-> schemas[formatted[k]].headerFormatting[1]]]
    IN  /\ ops[i].kind = "applyFormatting" /\ ops[i].pc = "metadata"
        /\ IF Len(requests) = 0
           THEN Settle(i, op, Ok(UNDEF), sheets)
           ELSE Goto(i, [op EXCEPT !.pc = "format", !.list = requests], sheets)

\* structuralBatchUpdate(requests): cell formats change, cell values do not.
ApplyFormattingRequests(i) ==
    LET op == [ops[i] EXCEPT !.calls = Append(@, [fn |-> "structuralBatchUpdate",
                                                  repeatCell |-> ops[i].list])]
    IN  /\ ops[i].kind = "applyFormatting" /\ ops[i].pc = "format"
        /\ IF isReadOnly
           THEN \E status \in Unauthenticated : Settle(i, op, wrapHttpError(status), sheets)
           ELSE Settle(i, op, Ok(UNDEF), sheets)

\* ------------------------------------------------------------------ the repository of one table

\* The values the calls are made with.
OrderKeys == {"a", "b"}
OrderRecords == {[id |-> k] : k \in OrderKeys} \cup {[id |-> "a", customer |-> NULL]}
OrderChanges == {[customer |-> "z"], [id |-> "b"], [customer |-> NULL]}

Init ==
    /\ sheets = [t \in {"Orders", "Items", "Notes"} |-> <<>>]
    /\ ops = [i \in Slots |-> Idle]
    /\ writeLock = 0
    /\ last = NoEvent
    /\ ctx = [auth |-> "token", apiKey |-> UNDEF]

Next ==
    \/ \E r \in OrderRecords : IssueCreate("Orders", r, FALSE)
    \/ \E k \in OrderKeys, c \in OrderChanges : IssueUpdate("Orders", k, c, FALSE)
    \/ \E k \in OrderKeys : IssueDelete("Orders", k)
    \/ \E i \in Slots : CreateBegin(i)
    \/ \E i \in Slots : CreateCheckDuplicate(i)
    \/ \E i \in Slots : CreateEnsureHeader(i)
    \/ \E i \in Slots : CreateWriteHeader(i)
    \/ \E i \in Slots : CreateAppend(i)
    \/ \E i \in Slots : UpdateBegin(i)
    \/ \E i \in Slots : UpdateRead(i)
    \/ \E i \in Slots : UpdateClear(i)
    \/ \E i \in Slots : UpdateWrite(i)
    \/ \E i \in Slots : DeleteBegin(i)
    \/ \E i \in Slots : DeleteRead(i)
    \/ \E i \in Slots : DeleteClear(i)
    \/ \E i \in Slots : DeleteWrite(i)

Spec == Init /\ [][Next]_vars

\* ------------------------------------------------------------------ properties of one table's repository

\* What the call that has just settled observed and left.
RecordsBefore == readAllRaw(last.before, schemas[last.model])
RecordsAfter == readAllRaw(sheets, schemas[last.model])
TabOf(m) == schemas[m].sheetName
WriteCalls(calls) == SelectSeq(calls, LAMBDA c : c.fn \in {"updateSheet", "clearRange"})

\* C2: a create whose primary key value equals the key of a record the table
\* holds (when the create gets the write lock) settles with a validation
\* error, makes no write call and leaves the tab as it was.
C2_DuplicateKeyRejected ==
    (last.kind = "create" /\ CreateKey(last) \in Keys(last.before, schemas[last.model]))
        => /\ last.result.kind = "VALIDATION_ERROR"
           /\ WriteCalls(last.calls) = <<>>
           /\ sheets[TabOf(last.model)] = last.before[TabOf(last.model)]

C2_Witness ==
    /\ last.kind = "create"
    /\ CreateKey(last) \in Keys(last.before, schemas[last.model])
    /\ last.result.kind = "VALIDATION_ERROR"
    /\ last.result.fields = <<"id">>

\* C3: of two creates of the same key, both passing schema validation, queued
\* one directly behind the other on a table that does not hold the key, the
\* first succeeds and the second settles with a validation error, makes no
\* write call and leaves the tab as the first left it: one row carries the key.
C3_OneOfTwoCreatesSucceeds ==
    (/\ last.kind = "create" /\ last.twin # "none"
     /\ MissingFields(schemas[last.model], applyDefaults(schemas[last.model], last.rec)) = <<>>)
        => /\ last.twin = "ok"
           /\ last.result.kind = "VALIDATION_ERROR"
           /\ WriteCalls(last.calls) = <<>>
           /\ sheets[TabOf(last.model)] = last.before[TabOf(last.model)]
           /\ Cardinality({k \in 1..Len(RecordsAfter) :
                            Get(RecordsAfter[k], schemas[last.model].primaryKey) = CreateKey(last)}) = 1

C3_Witness ==
    /\ last.kind = "create" /\ last.twin = "ok"
    /\ last.result.kind = "VALIDATION_ERROR"
    /\ last.result.fields = <<"id">>

\* C4: a successful update(id, changes) returns, and stores in the record's
\* place, a record that has the value of changes in every field changes names
\* and the prior record's value in every other field.
C4_UpdateMerges ==
    (last.kind = "update" /\ last.result.kind = "ok")
        => LET s == schemas[last.model]
               k == FindIndex(RecordsBefore, s.primaryKey, last.id)
               prior == RecordsBefore[k]
               returned == last.result.value
               stored == RecordsAfter[k]
           IN  /\ k # 0 /\ k <= Len(RecordsAfter)
               /\ DOMAIN returned = Range(s.headers)
               /\ \A f \in Range(s.headers) :
                    /\ f \in DOMAIN last.rec => returned[f] = last.rec[f] /\ stored[f] = last.rec[f]
                    /\ f \notin DOMAIN last.rec => returned[f] = prior[f] /\ stored[f] = prior[f]

C4_Witness ==
    /\ last.kind = "update" /\ last.result.kind = "ok"
    /\ last.rec = [customer |-> "z"]
    /\ RecordsBefore[FindIndex(RecordsBefore, "id", last.id)].customer = "x"
    /\ last.result.value = [id |-> last.id, customer |-> "z"]

\* C5: a successful update makes exactly two write calls, a clear of the data
\* range and then one overwrite of the write range with the header and one row
\* per record; after it the table holds as many records as before, and every
\* record but the updated one is the same record in the same place.
C5_UpdateRewritesInOrder ==
    (last.kind = "update" /\ last.result.kind = "ok")
        => LET s == schemas[last.model]
               k == FindIndex(RecordsBefore, s.primaryKey, last.id)
               w == WriteCalls(last.calls)
           IN  /\ Len(w) = 2
               /\ w[1].fn = "clearRange" /\ w[1].range = s.clearRange
               /\ w[2].fn = "updateSheet" /\ w[2].range = s.writeRange /\ ~w[2].append
               /\ w[2].values[1] = s.headers
               /\ Len(w[2].values) = 1 + Len(RecordsBefore)
               /\ last.calls[Len(last.calls) - 1] = w[1] /\ last.calls[Len(last.calls)] = w[2]
               /\ Len(RecordsAfter) = Len(RecordsBefore)
               /\ \A j \in 1..Len(RecordsBefore) : j # k => RecordsAfter[j] = RecordsBefore[j]

C5_Witness ==
    /\ last.kind = "update" /\ last.result.kind = "ok"
    /\ Len(RecordsBefore) = 2
    /\ FindIndex(RecordsBefore, "id", last.id) = 1
    /\ RecordsAfter[2] = RecordsBefore[2]
    /\ RecordsAfter[1] # RecordsBefore[1]

\* C6: a delete(id) of an id no record carries settles without error and leaves
\* the records of the table as they were; after any delete(id) no record
\* carries id, so that a second delete(id) in a row is such a delete.
C6_DeleteIdempotent ==
    /\ (last.kind = "delete" /\ last.id \notin Keys(last.before, schemas[last.model]))
            => last.result.kind = "ok" /\ RecordsAfter = RecordsBefore
    /\ last.kind = "delete"
            => last.result.kind = "ok" /\ last.id \notin Keys(sheets, schemas[last.model])

C6_Witness ==
    /\ last.kind = "delete"
    /\ last.id \notin Keys(last.before, schemas[last.model])
    /\ Len(RecordsBefore) > 0
    /\ RecordsAfter = RecordsBefore

\* ------------------------------------------------------------------ the write lock

\* Every write-class operation of the client on the Orders table, one call of each.
NextLock ==
    \/ IssueCreate("Orders", [id |-> "a"], FALSE)
    \/ IssueUpdate("Orders", "a", [customer |-> "z"], FALSE)
    \/ IssueDelete("Orders", "a")
    \/ \E l \in {<<>>, <<[id |-> "b", customer |-> "y"]>>} : IssueWriteAll("Orders", l)
    \/ IssueAppend("Orders", <<[id |-> "b", customer |-> "y"]>>)
    \/ IssueBatchSync([Orders |-> <<[id |-> "a", customer |-> "y"]>>])
    \/ IssueRawWriteRange(schemas["Orders"].writeRange, <<schemas["Orders"].headers>>)
    \/ IssueRawClearRange(schemas["Orders"].clearRange)
    \/ \E i \in Slots : CreateBegin(i)
    \/ \E i \in Slots : CreateCheckDuplicate(i)
    \/ \E i \in Slots : CreateEnsureHeader(i)
    \/ \E i \in Slots : CreateWriteHeader(i)
    \/ \E i \in Slots : CreateAppend(i)
    \/ \E i \in Slots : UpdateBegin(i)
    \/ \E i \in Slots : UpdateRead(i)
    \/ \E i \in Slots : UpdateClear(i)
    \/ \E i \in Slots : UpdateWrite(i)
    \/ \E i \in Slots : DeleteBegin(i)
    \/ \E i \in Slots : DeleteRead(i)
    \/ \E i \in Slots : DeleteClear(i)
    \/ \E i \in Slots : DeleteWrite(i)
    \/ \E i \in Slots : WriteAllBegin(i)
    \/ \E i \in Slots : WriteAllClear(i)
    \/ \E i \in Slots : WriteAllWrite(i)
    \/ \E i \in Slots : AppendBegin(i)
    \/ \E i \in Slots : AppendEnsureHeader(i)
    \/ \E i \in Slots : AppendWriteHeader(i)
    \/ \E i \in Slots : AppendRows(i)
    \/ \E i \in Slots : BatchSyncBegin(i)
    \/ \E i \in Slots : BatchSyncClear(i)
    \/ \E i \in Slots : BatchSyncUpdate(i)
    \/ \E i \in Slots : RawWriteRangeBegin(i)
    \/ \E i \in Slots : RawWriteRange(i)
    \/ \E i \in Slots : RawClearRangeBegin(i)
    \/ \E i \in Slots : RawClearRange(i)

SpecLock == Init /\ [][NextLock]_vars

\* A write-class call that has started (its function runs under withWriteLock)
\* and has not settled.
Executing(i) == ops[i].kind \in WriteKinds /\ ops[i].pc # "queued"

\* C1: at most one write-class operation of the client executes at a time: no
\* call makes a network call while another has started and not settled.
C1_OneWriterAtATime ==
    \A i, j \in Slots : Executing(i) /\ Executing(j) => i = j

C1_Witness ==
    \E i, j \in Slots :
        /\ Executing(i) /\ WriteCalls(ops[i].calls) # <<>>
        /\ ops[j].kind \in WriteKinds /\ ops[j].pc = "queued"

\* ------------------------------------------------------------------ two related tables

ItemRecords == {[id |-> "i", orderId |-> "a"], [id |-> "j", orderId |-> "b"], [id |-> "i"]}
\* The creates and updates of Items: the record or the changes, and skipFkValidation.
ItemCreates == {<<[id |-> "i", orderId |-> "a"], FALSE>>, <<[id |-> "j", orderId |-> "b"], FALSE>>,
                <<[id |-> "j", orderId |-> "b"], TRUE>>, <<[id |-> "i"], FALSE>>}
ItemUpdates == {<<[orderId |-> "b"], FALSE>>, <<[orderId |-> "b"], TRUE>>, <<[id |-> "j"], FALSE>>}

\* Writes to Orders and to the Items that reference them.
NextWriteFk ==
    \/ IssueCreate("Orders", [id |-> "a"], FALSE)
    \/ \E c \in ItemCreates : IssueCreate("Items", c[1], c[2])
    \/ \E c \in ItemUpdates : IssueUpdate("Items", "i", c[1], c[2])
    \/ IssueDelete("Orders", "a")
    \/ \E i \in Slots : CreateBegin(i)
    \/ \E i \in Slots : CreateCheckDuplicate(i)
    \/ \E i \in Slots : ValidateForeignKeys(i)
    \/ \E i \in Slots : CreateEnsureHeader(i)
    \/ \E i \in Slots : CreateWriteHeader(i)
    \/ \E i \in Slots : CreateAppend(i)
    \/ \E i \in Slots : UpdateBegin(i)
    \/ \E i \in Slots : UpdateRead(i)
    \/ \E i \in Slots : UpdateClear(i)
    \/ \E i \in Slots : UpdateWrite(i)
    \/ \E i \in Slots : DeleteBegin(i)
    \/ \E i \in Slots : DeleteRead(i)
    \/ \E i \in Slots : DeleteClear(i)
    \/ \E i \in Slots : DeleteWrite(i)

SpecFk == Init /\ [][NextWriteFk]_vars

\* ------------------------------------------------------------------ properties of foreign keys

\* The record the create or update that has just settled was to store.
Written ==
    LET s == schemas[last.model]
        k == FindIndex(RecordsBefore, s.primaryKey, last.id)
    IN  IF last.kind = "create" THEN applyDefaults(s, last.rec)
        ELSE IF k # 0 THEN [f \in DOMAIN RecordsBefore[k] \cup DOMAIN last.rec |->
                                IF f \in DOMAIN last.rec THEN last.rec[f] ELSE RecordsBefore[k][f]]
        ELSE last.rec

\* The relations of the written record whose column holds a value that no
\* record of the target table carries as its key.
DanglingFks ==
    {k \in 1..Len(schemas[last.model].relations) :
        LET relation == schemas[last.model].relations[k]
            v == Get(Written, relation.sourceField)
        IN  v \notin {NULL, UNDEF} /\ v \notin Keys(last.before, schemas[relation.targetModel])}

NextLoad ==
    \/ \E k \in OrderKeys : IssueCreate("Orders", [id |-> k], FALSE)
    \/ \E r \in ItemRecords : IssueCreate("Items", r, TRUE)
    \/ IssueUpdate("Items", "i", [orderId |-> "b"], TRUE)
    \/ \E f \in {UNDEF, "a"} : IssueRead("findMany", "Orders", f, <<"Orders", "Items">>)
    \/ IssueRead("readAll", "Orders", UNDEF, <<"Nope">>)
    \/ \E i \in Slots : CreateBegin(i)
    \/ \E i \in Slots : CreateCheckDuplicate(i)
    \/ \E i \in Slots : CreateEnsureHeader(i)
    \/ \E i \in Slots : CreateWriteHeader(i)
    \/ \E i \in Slots : CreateAppend(i)
    \/ \E i \in Slots : UpdateBegin(i)
    \/ \E i \in Slots : UpdateRead(i)
    \/ \E i \in Slots : UpdateClear(i)
    \/ \E i \in Slots : UpdateWrite(i)
    \/ \E i \in Slots : ReadRecords(i)
    \/ \E i \in Slots : LoadRelated(i)

SpecLoad == Init /\ [][NextLoad]_vars

\* The places, among the stored records of table m, of the children of
\* `parent`: the records whose column of the relation to the parent's table
\* holds the parent's primary key.
ChildrenOf(parent, m) ==
    LET kids == readAllRaw(sheets, schemas[m])
        rels == {k \in 1..Len(schemas[m].relations) : schemas[m].relations[k].targetModel = last.model}
    IN  {c \in 1..Len(kids) :
            \E k \in rels : Get(kids[c], schemas[m].relations[k].sourceField)
                                = Get(parent, schemas[last.model].primaryKey)}

\* C8: every record a findMany or readAll with an include map returns carries,
\* under the name of each requested table, a sequence that holds exactly the
\* stored children of the record, in the order they are stored: its length is
\* the number of children, and its j-th element is the child that has j - 1
\* children before it.  With no child the sequence is there and is empty.
C8_EagerLoadComplete ==
    (last.kind \in {"findMany", "readAll"} /\ last.result.kind = "ok")
        => \A n \in 1..Len(last.result.value) :
           \A m \in Range(last.list) \cap DOMAIN schemas :
                LET parent == last.result.value[n]
                    kids == readAllRaw(sheets, schemas[m])
                    I == ChildrenOf(parent, m)
                IN  /\ m \in DOMAIN parent
                    /\ DOMAIN parent[m] = 1..Cardinality(I)
                    /\ \A j \in 1..Cardinality(I) :
                            \E c \in I : /\ parent[m][j] = kids[c]
                                         /\ Cardinality({x \in I : x < c}) = j - 1

C8_Witness ==
    /\ last.kind = "findMany" /\ last.result.kind = "ok"
    /\ last.list = <<"Orders", "Items">>
    /\ Len(last.result.value) = 2
    /\ \E n, k \in 1..2 :
            /\ Len(last.result.value[n].Items) = 2
            /\ last.result.value[n].Items[1].id # last.result.value[n].Items[2].id
            /\ last.result.value[k].Items = <<>>
            /\ last.result.value[k].Orders = <<>>


\* ------------------------------------------------------------------ migration runs

MigrationLists == {<<M1>>, <<M1, M2>>, <<M2, M1>>, <<M3, M1>>, <<M4, M3, M1>>, <<M1, M1>>,
                   <<M2, M1, [M2 EXCEPT !.name = "second again"]>>}

NextMig ==
    \/ \E l \in MigrationLists : IssueMigrate(l)
    \/ \E i \in Slots : MigrateMetadata(i)
    \/ \E i \in Slots : MigrateCreateLedger(i)
    \/ \E i \in Slots : MigrateRefresh(i)
    \/ \E i \in Slots : MigrateReadApplied(i)
    \/ \E i \in Slots : MigrateUp(i)
    \/ \E i \in Slots : MigrateRecord(i)

SpecMig == Init /\ [][NextMig]_vars

\* The versions whose procedures a run has executed, in the order of execution.
Ups(calls) ==
    LET ups == SelectSeq(calls, LAMBDA c : c.fn = "up")
    IN  [k \in 1..Len(ups) |-> ups[k].version]

\* The requests of a run that change the spreadsheet.
RunWrites(calls) == SelectSeq(calls, LAMBDA c : c.fn \in {"up", "updateSheet", "structuralBatchUpdate"})

\* C9: a run of migrations that directly follows a successful run of the same
\* migrations, no other call under way, succeeds, executes no procedure and
\* appends no ledger row: it sends no request that changes the spreadsheet.
C9_SecondRunExecutesNothing ==
    (last.kind = "migrate" /\ last.twin = "ok")
        => /\ last.result.kind = "ok"
           /\ Ups(last.calls) = <<>>
           /\ RunWrites(last.calls) = <<>>

Ascending(versions) == \A a, b \in 1..Len(versions) : a < b => versions[a] < versions[b]

MigrationOf(list, version) == list[CHOOSE k \in 1..Len(list) : list[k].version = version]

\* The procedure of migration m throws in a run whose metadata listed `titles`:
\* it names a tab the spreadsheet did not have.
Throws(m, titles) == m.up.sheet \notin titles

\* The ledger rows a run has appended, as the versions they carry.
Recorded(calls) ==
    LET posts == SelectSeq(calls, LAMBDA c : c.fn = "updateSheet")
    IN  [k \in 1..Len(posts) |-> posts[k].values[1][1]]

\* C11: a run goes past a procedure only when the procedure has not thrown;
\* when it throws, the run settles there with a migration error that carries
\* the version and name of that migration and what the procedure threw, the
\* call of the procedure is the last thing the run did (no later procedure
\* runs) and the run has appended no ledger row of that version.
C11_FailedMigrationStopsRun ==
    /\ \A i \in Slots : ops[i].kind = "migrate" =>
            \A k \in 1..Len(Ups(ops[i].calls)) :
                ~Throws(MigrationOf(ops[i].list, Ups(ops[i].calls)[k]), ops[i].rec)
    /\ last.kind = "migrate" =>
            LET ups == Ups(last.calls)
                thrown == {k \in 1..Len(ups) : Throws(MigrationOf(last.list, ups[k]), last.rec)}
            IN  /\ thrown \subseteq {Len(ups)}
                /\ thrown # {} =>
                        LET m == MigrationOf(last.list, ups[Len(ups)])
                        IN  /\ last.result.kind = "MIGRATION_ERROR"
                            /\ last.result.migrationVersion = m.version
                            /\ last.result.migrationName = m.name
                            /\ last.result.cause.kind = "SCHEMA_ERROR"
                            /\ last.calls[Len(last.calls)] = [fn |-> "up", version |-> m.version]
                            /\ ToString(m.version) \notin Range(Recorded(last.calls))
                /\ last.result.kind = "MIGRATION_ERROR" => thrown # {}

C11_Witness ==
    /\ last.kind = "migrate" /\ last.list = <<M4, M3, M1>>
    /\ last.result.kind = "MIGRATION_ERROR"
    /\ last.result.migrationVersion = 3 /\ last.result.migrationName = "third"
    /\ Ups(last.calls) = <<1, 3>>
    /\ Recorded(last.calls) = <<"1">>

\* The versions the rows of the ledger tab of `sh` carry.
LedgerVersions(sh) ==
    IF MIGRATIONS_SHEET \in DOMAIN sh
    THEN {sh[MIGRATIONS_SHEET][r][1] : r \in 1..Len(sh[MIGRATIONS_SHEET])}
    ELSE {}

\* The version a run of `list` fails at: the least one whose procedure throws.
FailingVersion(list, titles) ==
    LET bad == {list[k].version : k \in {j \in 1..Len(list) : Throws(list[j], titles)}}
    IN  CHOOSE v \in bad : \A w \in bad : v <= w

\* C12: a run that directly follows a run of the same migrations that failed
\* at version v executes the procedure of v again, executes no higher version
\* before it, and executes no procedure of a version the ledger held when the
\* run was requested.
C12_RetryFromFailedVersion ==
    (last.kind = "migrate" /\ last.twin = "MIGRATION_ERROR")
        => LET ups == Ups(last.calls)
               v == FailingVersion(last.list, last.rec)
           IN  /\ v \in Range(ups)
               /\ \A k \in 1..Len(ups) : ups[k] <= v
               /\ \A k \in 1..Len(ups) : ToString(ups[k]) \notin LedgerVersions(last.before)

\* The procedure calls and ledger appends of a run, in the order it made them.
RunSteps(calls) == SelectSeq(calls, LAMBDA c : c.fn \in {"up", "updateSheet"})

\* Every ledger append of the run directly follows the call of the procedure of
\* the version it records, a procedure that has not thrown; every procedure
\* call but the first directly follows a ledger append.
RecordsAfterEachUp(list, titles, calls) ==
    LET steps == RunSteps(calls)
    IN  \A k \in 1..Len(steps) :
            IF steps[k].fn = "updateSheet"
            THEN /\ k > 1 /\ steps[k - 1].fn = "up"
                 /\ steps[k].range = [sheet |-> MIGRATIONS_SHEET, row |-> 1] /\ steps[k].append
                 /\ Len(steps[k].values) = 1
                 /\ steps[k].values[1][1] = ToString(steps[k - 1].version)
                 /\ steps[k].values[1][2] = MigrationOf(list, steps[k - 1].version).name
                 /\ ~Throws(MigrationOf(list, steps[k - 1].version), titles)
            ELSE k > 1 => steps[k - 1].fn = "updateSheet"

\* The ledger rows that carry `version`.
LedgerRowsOf(version) ==
    IF MIGRATIONS_SHEET \in DOMAIN sheets
    THEN {r \in 1..Len(sheets[MIGRATIONS_SHEET]) : sheets[MIGRATIONS_SHEET][r][1] = ToString(version)}
    ELSE {}

\* C13: in every state, each run has appended the ledger row of a version
\* directly after the procedure of that version completed without error and
\* before starting the next procedure; the ledger holds no row of a version
\* whose procedure throws, and no more rows of version 1 than there are
\* columns its procedure has added to Orders.
C13_RecordedOnlyAfterSuccess ==
    /\ \A i \in Slots : ops[i].kind = "migrate" =>
            RecordsAfterEachUp(ops[i].list, ops[i].rec, ops[i].calls)
    /\ last.kind = "migrate" => RecordsAfterEachUp(last.list, last.rec, last.calls)
    /\ LedgerRowsOf(M3.version) = {}
    /\ Cardinality(LedgerRowsOf(M1.version))
            <= (IF Len(sheets["Orders"]) >= 1 THEN Len(sheets["Orders"][1]) ELSE 0)

C13_Witness ==
    /\ \E i \in Slots :
            /\ ops[i].kind = "migrate" /\ ops[i].pc = "record" /\ ops[i].index = 2
            /\ Len(RunSteps(ops[i].calls)) = 3
    /\ Cardinality(LedgerRowsOf(M1.version)) = 1
    /\ LedgerRowsOf(M2.version) = {}

\* ------------------------------------------------------------------ transport calls

\* The clients: created with a token, with a provider, with an apiKey only.
Clients == {[auth |-> "token", apiKey |-> UNDEF],
            [auth |-> Provider, apiKey |-> UNDEF],
            [auth |-> UNDEF, apiKey |-> "key"]}

InitTransport ==
    /\ sheets \in {[Orders |-> rows, Items |-> <<>>, Notes |-> <<>>] :
                     rows \in {<<>>, <<schemas.Orders.headers, <<"a", "x">>>>}}
    /\ ops = [i \in Slots |-> Idle]
    /\ writeLock = 0
    /\ last = NoEvent
    /\ ctx \in Clients

NextTransport ==
    \/ \E range \in {schemas.Orders.readRange, schemas.Orders.writeRange} : IssueRawReadRange(range)
    \/ \E i \in Slots : RawReadRangeHeaders(i)
    \/ \E i \in Slots : RawReadRangeFetch(i)
    \/ \E i \in Slots : RawReadRangeRefresh(i)
    \/ \E i \in Slots : RawReadRangeRetry(i)

SpecTransport == InitTransport /\ [][NextTransport]_vars

\* The provider calls a transport call made after its n-th fetch.
AuthCallsAfterFetch(calls, n) ==
    LET at == CHOOSE k \in 1..Len(calls) :
                    calls[k].fn = "fetch" /\ Len(Fetches(SubSeq(calls, 1, k))) = n
    IN  AuthCalls(SubSeq(calls, at + 1, Len(calls)))

C15_NoRetryOtherwise ==
    /\ \A i \in Slots :
        (ops[i].kind = "raw.readRange" /\ Fetches(ops[i].calls) # <<>>)
        => /\ TypeOf(ctx.auth) = "function"
           /\ Fetches(ops[i].calls)[1].response.status = 401
    /\ (/\ last.kind = "raw.readRange"
        /\ \/ TypeOf(ctx.auth) # "function"
           \/ Fetches(last.calls)[1].response.status # 401)
       => /\ Len(Fetches(last.calls)) = 1
          /\ last.calls[Len(last.calls)].fn = "fetch"
          /\ LET res == Fetches(last.calls)[1].response
             IN  last.result.kind =
                    IF res.threw THEN "NETWORK_ERROR"
                    ELSE IF res.status = 200 THEN "ok"
                    ELSE IF res.status = 401 THEN "AUTH_ERROR"
                    ELSE IF res.status = 403 THEN "PERMISSION_ERROR"
                    ELSE IF res.status = 429 THEN "RATE_LIMIT"
                    ELSE "API_ERROR"

C15_Witness ==
    /\ last.kind = "raw.readRange"
    /\ TypeOf(ctx.auth) = "string"
    /\ Len(Fetches(last.calls)) = 1
    /\ Fetches(last.calls)[1].response.status = 401
    /\ last.result.kind = "AUTH_ERROR"

\* ------------------------------------------------------------------ the read-only client

\* A client created with an apiKey only, on a spreadsheet that has the Orders
\* tab and may lack the other tabs.
InitReadOnly ==
    /\ sheets \in {[t \in tabs |-> IF t = "Orders" THEN rows ELSE <<>>] :
                     tabs \in {{"Orders"}, {"Orders", "Items", "Notes"}},
                     rows \in {<<>>, <<schemas.Orders.headers, <<"a", "x">>>>}}
    /\ ops = [i \in Slots |-> Idle]
    /\ writeLock = 0
    /\ last = NoEvent
    /\ ctx = [auth |-> UNDEF, apiKey |-> "key"]

\* Every operation of the client, called on the read-only client.
NextReadOnly ==
    \/ \E r \in OrderRecords : IssueCreate("Orders", r, FALSE)
    \/ \E k \in OrderKeys, c \in OrderChanges : IssueUpdate("Orders", k, c, FALSE)
    \/ \E k \in OrderKeys : IssueDelete("Orders", k)
    \/ \E l \in {<<>>, <<[id |-> "b", customer |-> "y"]>>} : IssueWriteAll("Orders", l)
    \/ IssueAppend("Orders", <<[id |-> "b", customer |-> "y"]>>)
    \/ IssueBatchSync([Orders |-> <<[id |-> "a", customer |-> "y"]>>])
    \/ \E l \in MigrationLists : IssueMigrate(l)
    \/ IssueRawWriteRange(schemas["Orders"].writeRange, <<schemas["Orders"].headers>>)
    \/ IssueRawClearRange(schemas["Orders"].clearRange)
    \/ \E f \in {UNDEF, "a"} : IssueRead("findMany", "Orders", f, <<>>)
    \/ \E range \in {schemas.Orders.readRange, schemas.Orders.writeRange} : IssueRawReadRange(range)
    \/ IssueEnsureSchema
    \/ IssueApplyFormatting
    \/ \E i \in Slots : ReadRecords(i)
    \/ \E i \in Slots : RawReadRangeHeaders(i)
    \/ \E i \in Slots : RawReadRangeFetch(i)
    \/ \E i \in Slots : EnsureSchemaMetadata(i)
    \/ \E i \in Slots : EnsureSchemaAddSheets(i)
    \/ \E i \in Slots : ApplyFormattingMetadata(i)
    \/ \E i \in Slots : ApplyFormattingRequests(i)

SpecReadOnly == InitReadOnly /\ [][NextReadOnly]_vars

WriteClass == WriteKinds \cup {"migrate"}

\* C16: on a client created without auth, a call of create, update, delete,
\* writeAll, append, batchSync, migrate, raw.writeRange or raw.clearRange fails
\* with PERMISSION_ERROR at the call: it is never queued on the write lock,
\* the lock stays free, and it has made no network call.
C16_ReadOnlyWritesRejected ==
    isReadOnly =>
        /\ writeLock = 0
        /\ \A i \in Slots : ops[i].kind \notin WriteClass
        /\ last.kind \in WriteClass
            => /\ last.result.kind = "PERMISSION_ERROR"
               /\ last.calls = <<>>

C16_Witness ==
    /\ isReadOnly
    /\ last.kind = "migrate"
    /\ last.list = <<M1, M2>>
    /\ last.result.kind = "PERMISSION_ERROR"
    /\ last.calls = <<>>

\* The requests that change the spreadsheet.
WriteRequests(calls) ==
    SelectSeq(calls, LAMBDA c : c.fn \in {"updateSheet", "clearRange", "batchClear", "batchUpdate",
                                          "up", "structuralBatchUpdate"})

\* C17: a client created with an apiKey only sends no request that changes
\* the spreadsheet (overwrite, append, clear, batch write, structural change),
\* whatever operations are called on it, ensureSchema and applyFormatting
\* included.
C17_ReadOnlyNeverWrites ==
    isReadOnly =>
        /\ \A i \in Slots : WriteRequests(ops[i].calls) = <<>>
        /\ last.kind # "none" => WriteRequests(last.calls) = <<>>

\* ------------------------------------------------------------------ migrate and the write lock

\* Runs of migrations among writes of a range.
NextMigLock ==
    \/ \E l \in {<<M1>>, <<M2, M1>>} : IssueMigrate(l)
    \/ IssueRawWriteRange(schemas["Orders"].writeRange, <<schemas["Orders"].headers>>)
    \/ \E i \in Slots : MigrateMetadata(i)
    \/ \E i \in Slots : MigrateCreateLedger(i)
    \/ \E i \in Slots : MigrateRefresh(i)
    \/ \E i \in Slots : MigrateReadApplied(i)
    \/ \E i \in Slots : MigrateUp(i)
    \/ \E i \in Slots : MigrateRecord(i)
    \/ \E i \in Slots : RawWriteRangeBegin(i)
    \/ \E i \in Slots : RawWriteRange(i)

SpecMigLock == Init /\ [][NextMigLock]_vars

\* A run of migrations that has made a network call and has not settled.
Migrating(i) == ops[i].kind = "migrate" /\ ops[i].calls # <<>>

\* C18: while a run of migrations is under way, no write-class call of the
\* client executes and no other run of migrations is under way.
C18_MigrateHoldsWriteLock ==
    \A i, j \in Slots : (i # j /\ Migrating(i)) => ~Executing(j) /\ ~Migrating(j)

\* C19: write-class calls start in the order they were made: a call made
\* while an earlier write-class call had not finished (prev, the tail of the
\* chain at the call, is not resolved) has issued no network call.
C19_FirstComeFirstServed ==
    \A j \in Slots : (ops[j].kind \in WriteClass /\ ops[j].prev # 0) => ops[j].calls = <<>>

\* ------------------------------------------------------------------ writes that fail validation

\* Lists of Items for writeAll and append: all valid, and with a record
\* that lacks the required id.
ItemLists == {<<[id |-> "j", orderId |-> "a"]>>, <<[orderId |-> "a"]>>, <<[id |-> "k"], [orderId |-> "a"]>>}

\* Creates, updates, writeAlls and appends of Items, valid and invalid, and
\* the create of the Order they reference.
NextValidate ==
    \/ IssueCreate("Orders", [id |-> "a"], FALSE)
    \/ \E r \in {[id |-> "i", orderId |-> "a"], [orderId |-> "a"]} : IssueCreate("Items", r, FALSE)
    \/ \E c \in {[orderId |-> "a"], [orderId |-> "b"], [id |-> NULL]} : IssueUpdate("Items", "i", c, FALSE)
    \/ \E l \in ItemLists : IssueWriteAll("Items", l)
    \/ \E l \in ItemLists : IssueAppend("Items", l)
    \/ \E i \in Slots : CreateBegin(i)
    \/ \E i \in Slots : CreateCheckDuplicate(i)
    \/ \E i \in Slots : ValidateForeignKeys(i)
    \/ \E i \in Slots : CreateEnsureHeader(i)
    \/ \E i \in Slots : CreateWriteHeader(i)
    \/ \E i \in Slots : CreateAppend(i)
    \/ \E i \in Slots : UpdateBegin(i)
    \/ \E i \in Slots : UpdateRead(i)
    \/ \E i \in Slots : UpdateClear(i)
    \/ \E i \in Slots : UpdateWrite(i)
    \/ \E i \in Slots : WriteAllBegin(i)
    \/ \E i \in Slots : WriteAllClear(i)
    \/ \E i \in Slots : WriteAllWrite(i)
    \/ \E i \in Slots : AppendBegin(i)
    \/ \E i \in Slots : AppendEnsureHeader(i)
    \/ \E i \in Slots : AppendWriteHeader(i)
    \/ \E i \in Slots : AppendRows(i)

SpecValidate == Init /\ [][NextValidate]_vars

\* C20: a create, update, writeAll or append that settles with a validation
\* error (a required field missing, the key already stored, the record not
\* found, a foreign key without its target) has made no updateSheet and no
\* clearRange call, and its table is as it was when the call started.
C20_ValidationFailureWritesNothing ==
    (/\ last.kind \in {"create", "update", "writeAll", "append"}
     /\ last.result.kind = "VALIDATION_ERROR")
        => /\ WriteCalls(last.calls) = <<>>
           /\ sheets[TabOf(last.model)] = last.before[TabOf(last.model)]

C20_Witness ==
    /\ last.kind = "append"
    /\ last.list = <<[orderId |-> "a"]>>
    /\ last.result.kind = "VALIDATION_ERROR"
    /\ last.result.fields = <<"id">>
    /\ Keys(sheets, schemas["Items"]) = {"i"}
    /\ WriteCalls(last.calls) = <<>>

\* C21: an update(id, changes) on a table none of whose records carries id
\* as its primary key settles with a validation error that names the
\* primary-key field, and makes no clearRange and no updateSheet call.
C21_UpdateOfAbsentRecordRejected ==
    (last.kind = "update" /\ last.id \notin Keys(last.before, schemas[last.model]))
        => /\ last.result.kind = "VALIDATION_ERROR"
           /\ last.result.fields = <<schemas[last.model].primaryKey>>
           /\ WriteCalls(last.calls) = <<>>
           /\ sheets = last.before

C21_Witness ==
    /\ last.kind = "update"
    /\ last.id = "b"
    /\ Keys(last.before, schemas[last.model]) = {"a"}
    /\ last.result.kind = "VALIDATION_ERROR"
    /\ last.result.message = "Record not found"

\* ------------------------------------------------------------------ foreign keys that are not validated

\* Creates and updates of Items: the record or the changes, and skipFkValidation.
SkipCreates == {<<[id |-> "i", orderId |-> "b"], TRUE>>,
                <<[id |-> "j"], FALSE>>, <<[id |-> "j", orderId |-> NULL], FALSE>>}
SkipUpdates == {<<[orderId |-> "b"], FALSE>>, <<[orderId |-> "b"], TRUE>>,
                <<[orderId |-> NULL], FALSE>>, <<[id |-> "k"], FALSE>>}

\* Writes to Items with and without a foreign key to validate, and writes to
\* Orders, which declares no relation.
NextSkipFk ==
    \/ IssueCreate("Orders", [id |-> "a"], FALSE)
    \/ \E c \in SkipCreates : IssueCreate("Items", c[1], c[2])
    \/ \E c \in SkipUpdates : IssueUpdate("Items", "i", c[1], c[2])
    \/ \E i \in Slots : CreateBegin(i)
    \/ \E i \in Slots : CreateCheckDuplicate(i)
    \/ \E i \in Slots : ValidateForeignKeys(i)
    \/ \E i \in Slots : CreateEnsureHeader(i)
    \/ \E i \in Slots : CreateWriteHeader(i)
    \/ \E i \in Slots : CreateAppend(i)
    \/ \E i \in Slots : UpdateBegin(i)
    \/ \E i \in Slots : UpdateRead(i)
    \/ \E i \in Slots : UpdateClear(i)
    \/ \E i \in Slots : UpdateWrite(i)

SpecSkipFk == Init /\ [][NextSkipFk]_vars

\* The record the create or update that has just settled validates: the
\* record with its defaults, or the stored record merged with the changes.
ValidatedRecord ==
    IF last.kind = "create" THEN applyDefaults(schemas[last.model], last.rec)
    ELSE Merge(RecordsBefore[FindIndex(RecordsBefore, schemas[last.model].primaryKey, last.id)],
               last.rec)

\* The reads the call made of a table other than its own.
TargetReads(calls, m) ==
    SelectSeq(calls, LAMBDA c : c.fn = "getSheetValues" /\ c.range.sheet # TabOf(m))

\* C22: a create or update of a record whose foreign-key value is null or
\* absent, or that passes skipFkValidation, or (an update) whose changes do
\* not name the foreign-key field, does not read the relation's target table
\* and does not fail the foreign-key check; a create or update on a table
\* without relations reads no table but its own.
C22_ForeignKeyValidationSkipped ==
    (/\ last.kind \in {"create", "update"}
     /\ last.kind = "update" => last.id \in Keys(last.before, schemas[last.model]))
        => LET s == schemas[last.model]
           IN  /\ s.relations = <<>> => TargetReads(last.calls, last.model) = <<>>
               /\ \A k \in 1..Len(s.relations) :
                    LET relation == s.relations[k]
                        fkValue == Get(ValidatedRecord, relation.sourceField)
                    IN  (\/ last.skipFk
                         \/ fkValue = NULL \/ fkValue = UNDEF
                         \/ last.kind = "update" /\ relation.sourceField \notin DOMAIN last.rec)
                        => /\ \A c \in Range(last.calls) :
                                ~(/\ c.fn = "getSheetValues"
                                  /\ c.range = schemas[relation.targetModel].readRange)
                           /\ ~(/\ last.result.kind = "VALIDATION_ERROR"
                                /\ last.result.fields = <<relation.sourceField>>)

C22_Witness ==
    /\ last.kind = "update" /\ ~last.skipFk
    /\ last.rec = [id |-> "k"]
    /\ last.id \in Keys(last.before, schemas["Items"])
    /\ ValidatedRecord = [id |-> "k", orderId |-> "b"]
    /\ Keys(last.before, schemas["Orders"]) = {}
    /\ TargetReads(last.calls, "Items") = <<>>
    /\ last.result.kind = "ok"

\* ------------------------------------------------------------------ the reads of an eager load

\* The include maps: one registered table, two, one beside an unknown name,
\* and an unknown name alone.
IncludeMaps == {<<"Items">>, <<"Orders", "Items">>, <<"Items", "Nope">>, <<"Nope">>}

\* findMany and readAll of Orders with an include map, on any client.
NextInclude ==
    \/ \E f \in {UNDEF, "a"}, inc \in IncludeMaps : IssueRead("findMany", "Orders", f, inc)
    \/ \E inc \in IncludeMaps : IssueRead("readAll", "Orders", UNDEF, inc)
    \/ \E i \in Slots : ReadRecords(i)
    \/ \E i \in Slots : LoadRelated(i)

SpecInclude == InitTransport /\ [][NextInclude]_vars

\* The registered tables an include map names.
Included(include) == {key \in Range(include) : key \in DOMAIN schemas}

\* C23: a findMany or readAll whose include map names at least one registered
\* table makes two network calls whatever the number of tables named: the read
\* of its own table's range and then one batchGetValues with the read range
\* of every table named.  It reads no related table with getSheetValues.
C23_OneMultiRangeRead ==
    (last.kind \in {"findMany", "readAll"} /\ Included(last.list) # {})
        => /\ Len(last.calls) = 2
           /\ last.calls[1] = [fn |-> "getSheetValues", range |-> schemas[last.model].readRange]
           /\ last.calls[2].fn = "batchGetValues"
           /\ {last.calls[2].ranges[k] : k \in 1..Len(last.calls[2].ranges)}
                = {schemas[key].readRange : key \in Included(last.list)}
           /\ Len(last.calls[2].ranges) = Cardinality(Included(last.list))

C23_Witness ==
    /\ last.kind = "findMany"
    /\ last.list = <<"Orders", "Items">>
    /\ Len(last.calls) = 2
    /\ Len(last.calls[2].ranges) = 2
    /\ last.result.kind = "ok"
    /\ Len(last.result.value) = 1

\* C24: a run given a list in which two migrations carry one version settles
\* with a schema error without a network call: no metadata read, no ledger
\* creation or read, no procedure, no ledger append; such a run is never
\* under way.
C24_DuplicateVersionRejected ==
    LET Shared(list) == \E a, b \in 1..Len(list) : a # b /\ list[a].version = list[b].version
    IN  /\ \A i \in Slots : ops[i].kind = "migrate" => ~Shared(ops[i].list)
        /\ (last.kind = "migrate" /\ Shared(last.list))
            => /\ last.result.kind = "SCHEMA_ERROR"
               /\ last.calls = <<>>
               /\ sheets = last.before

C24_Witness ==
    /\ last.kind = "migrate"
    /\ Len(last.list) = 3
    /\ last.list[1] = M2 /\ last.list[2] = M1 /\ last.list[3].version = M2.version
    /\ last.result.kind = "SCHEMA_ERROR"
    /\ last.calls = <<>>
    /\ MIGRATIONS_SHEET \in DOMAIN sheets

\* ------------------------------------------------------------------ the migration context

\* The lists of the runs: a tab is created and then given a column, a tab is
\* renamed and then has a column renamed, a column is removed.
StepLists == {<<Steps.createSheet, Steps.addColumn>>, <<Steps.renameSheet, Steps.renameColumn>>,
              <<Steps.removeColumn>>}

\* Runs of migrations made one after the other on a spreadsheet with the
\* Orders and Items tabs.
NextMigCtx ==
    \/ /\ \A j \in Slots : ops[j].kind = "idle"
       /\ \E l \in StepLists : IssueMigrate(l)
    \/ \E i \in Slots : MigrateMetadata(i)
    \/ \E i \in Slots : MigrateCreateLedger(i)
    \/ \E i \in Slots : MigrateRefresh(i)
    \/ \E i \in Slots : MigrateReadApplied(i)
    \/ \E i \in Slots : MigrateUp(i)
    \/ \E i \in Slots : MigrateRecord(i)

InitMigCtx ==
    /\ sheets = [Orders |-> <<schemas.Orders.headers, <<"a", "x">>>>, Items |-> <<>>, Notes |-> <<>>]
    /\ ops = [i \in Slots |-> Idle]
    /\ writeLock = 0
    /\ last = NoEvent
    /\ ctx = [auth |-> "token", apiKey |-> UNDEF]

SpecMigCtx == InitMigCtx /\ [][NextMigCtx]_vars

\* C25: an operation of the migration context resolves the tab it names
\* against the tabs the spreadsheet has when the operation is called: a
\* procedure fails with "sheet not found" only when the spreadsheet has no tab
\* of the name, so that a tab created or renamed earlier in the run resolves.
C25_ResolvesAgainstLiveMetadata ==
    (/\ last.kind = "migrate"
     /\ last.result.kind = "MIGRATION_ERROR"
     /\ last.result.cause.kind = "SCHEMA_ERROR")
        => MigrationOf(last.list, last.result.migrationVersion).up.sheet \notin DOMAIN sheets

\* ------------------------------------------------------------------ transport outcomes

\* Every transport operation, called by each client, the store answering each
\* attempt with any of the responses.
NextOutcome ==
    \/ \E req \in Requests : IssueTransport(req)
    \/ \E i \in Slots : TransportHeaders(i)
    \/ \E i \in Slots : TransportFetch(i)
    \/ \E i \in Slots : TransportRefresh(i)
    \/ \E i \in Slots : TransportRetry(i)

SpecOutcome == InitTransport /\ [][NextOutcome]_vars

\* The error kind of the answer `res` to the last attempt of a call.
Classified(res) ==
    IF res.threw THEN "NETWORK_ERROR"
    ELSE IF res.status = 401 THEN "AUTH_ERROR"
    ELSE IF res.status = 403 THEN "PERMISSION_ERROR"
    ELSE IF res.status = 429 THEN "RATE_LIMIT"
    ELSE IF res.status \notin 200..299 THEN "API_ERROR"
    ELSE "ok"

\* C26: every transport operation settles with the kind of the answer to its
\* last attempt: 401 AUTH_ERROR, 403 PERMISSION_ERROR, 429 RATE_LIMIT with the
\* Retry-After of the answer in milliseconds when it has one, no answer
\* NETWORK_ERROR, any other status that is not 2xx API_ERROR.
C26_UniformClassification ==
    last.kind \in TransportOps
        => LET attempts == Fetches(last.calls)
               res == attempts[Len(attempts)].response
           IN  /\ last.result.kind = Classified(res)
               /\ (res.status = 429 /\ res.retryAfter # UNDEF)
                    => last.result.retryAfterMs = parseInt(res.retryAfter) * 1000

\* ------------------------------------------------------------------ createClient

\* const RESERVED_SHEET_NAMES = ["_genjutsu_migrations"]
NoReservedSheetNames == {}
RESERVED_SHEET_NAMES == {MIGRATIONS_SHEET}

\* !value, for a string, a function or undefined
Falsy(value) == value = UNDEF \/ value = ""

\* The loop over Object.entries(schemas) from entry k on, sheetNames holding
\* the sheet names of the entries before it: the first violation throws.
RECURSIVE ValidateSchemas(_, _, _)
ValidateSchemas(entries, k, sheetNames) ==
    IF k > Len(entries) THEN Ok(UNDEF)
    ELSE LET schema == entries[k].schema
             keys == {entries[j].key : j \in 1..Len(entries)}
         IN  IF Falsy(schema.sheetName) THEN schemaError("Schema has empty sheetName")
             ELSE IF Len(schema.headers) = 0 THEN schemaError("Schema has empty headers")
             ELSE IF schema.sheetName \in sheetNames THEN schemaError("Duplicate sheetName in schemas")
             ELSE IF schema.sheetName \in RESERVED_SHEET_NAMES
             THEN schemaError("Schema uses reserved sheet name")
             ELSE IF \E r \in 1..Len(schema.relations) : schema.relations[r].targetModel \notin keys
             THEN schemaError("Schema references model which is not registered")
             ELSE ValidateSchemas(entries, k + 1, sheetNames \cup {schema.sheetName})

\* createClient(config), up to the construction of the transport context.
ValidateConfig(config) ==
    IF Falsy(config.spreadsheetId) THEN schemaError("spreadsheetId must be non-empty")
    ELSE IF Falsy(config.auth) /\ Falsy(config.apiKey)
    THEN schemaError("Either auth or apiKey must be provided")
    ELSE IF Len(config.schemas) = 0 THEN schemaError("At least one schema must be registered")
    ELSE ValidateSchemas(config.schemas, 1, {})

\* The registries createClient is called with: the two models, one model, none;
\* a model with an empty sheet name, with no headers, with the sheet name of
\* another, with the ledger's sheet name; Items without Orders, and Items
\* beside Orders registered under another key.
Registries ==
    LET O == [key |-> "Orders", schema |-> schemas.Orders]
        I == [key |-> "Items", schema |-> schemas.Items]
    IN  {<<O, I>>, <<O>>, <<>>,
         <<[O EXCEPT !.schema.sheetName = ""], I>>,
         <<O, [I EXCEPT !.schema.headers = <<>>]>>,
         <<O, [I EXCEPT !.schema.sheetName = "Orders"]>>,
         <<O, [I EXCEPT !.schema.sheetName = MIGRATIONS_SHEET]>>,
         <<I>>,
         <<[O EXCEPT !.key = "orders"], I>>}

Configs == [spreadsheetId : {"", "sheet-1"}, auth : {UNDEF, "token", Provider},
            apiKey : {UNDEF, "key"}, schemas : Registries]

\* createClient(config): throws, or returns the client of the config.
CreateClient(config) ==
    LET op == [Idle EXCEPT !.kind = "createClient", !.rec = config, !.before = sheets]
        result == ValidateConfig(config)
    IN  /\ last' = Event(op, result)
        /\ ctx' = IF result.kind = "ok" THEN [auth |-> config.auth, apiKey |-> config.apiKey] ELSE ctx
        /\ UNCHANGED <<sheets, ops, writeLock>>

\* No client yet.
InitCreate ==
    /\ sheets = [t \in {"Orders", "Items", "Notes"} |-> <<>>]
    /\ ops = [i \in Slots |-> Idle]
    /\ writeLock = 0
    /\ last = NoEvent
    /\ ctx = [auth |-> UNDEF, apiKey |-> UNDEF]

NextCreate == \E config \in Configs : CreateClient(config)

SpecCreate == InitCreate /\ [][NextCreate]_vars

\* One of the conditions the construction refuses holds of the config.
Refused(config) ==
    LET entries == config.schemas
        keys == {entries[k].key : k \in 1..Len(entries)}
    IN  \/ config.spreadsheetId = ""
        \/ config.auth = UNDEF /\ config.apiKey = UNDEF
        \/ entries = <<>>
        \/ \E k \in 1..Len(entries) : entries[k].schema.sheetName = ""
        \/ \E k \in 1..Len(entries) : entries[k].schema.headers = <<>>
        \/ \E j, k \in 1..Len(entries) :
                j # k /\ entries[j].schema.sheetName = entries[k].schema.sheetName
        \/ \E k \in 1..Len(entries) : entries[k].schema.sheetName = MIGRATIONS_SHEET
        \/ \E k \in 1..Len(entries) :
                \E r \in 1..Len(entries[k].schema.relations) :
                    entries[k].schema.relations[r].targetModel \notin keys

WriteAllLists ==
    {<<>>, <<[id |-> "b", customer |-> "y"]>>,
     <<[id |-> "b", customer |-> "y"], [id |-> "a", customer |-> "x"]>>,
     <<[customer |-> "y"]>>}

\* The payloads batchSync is called with: both tables, and Orders alone.
Payloads ==
    {[Orders |-> <<[id |-> "c", customer |-> "z"]>>, Items |-> <<[id |-> "j", orderId |-> "c"]>>],
     [Orders |-> <<[id |-> "b", customer |-> "y"]>>]}

\* The tabs are empty or hold their header and records.
InitOverwrite ==
    /\ sheets \in {[Orders |-> o, Items |-> it, Notes |-> <<>>] :
                     o \in {<<>>, <<schemas.Orders.headers, <<"a", "x">>, <<"b", "y">>>>},
                     it \in {<<>>, <<schemas.Items.headers, <<"i", "a">>>>}}
    /\ ops = [i \in Slots |-> Idle]
    /\ writeLock = 0
    /\ last = NoEvent
    /\ ctx = [auth |-> "token", apiKey |-> UNDEF]

\* writeAll of Orders and batchSync, next to each other and to readAll of Orders.
NextOverwrite ==
    \/ \E l \in WriteAllLists : IssueWriteAll("Orders", l)
    \/ \E payload \in Payloads : IssueBatchSync(payload)
    \/ IssueRead("readAll", "Orders", UNDEF, <<>>)
    \/ \E i \in Slots : WriteAllBegin(i)
    \/ \E i \in Slots : WriteAllClear(i)
    \/ \E i \in Slots : WriteAllWrite(i)
    \/ \E i \in Slots : BatchSyncBegin(i)
    \/ \E i \in Slots : BatchSyncClear(i)
    \/ \E i \in Slots : BatchSyncUpdate(i)
    \/ \E i \in Slots : ReadRecords(i)

SpecOverwrite == InitOverwrite /\ [][NextOverwrite]_vars

\* The rows of `tab` are the header of `s` and one row per record of
\* `records`, in their order, each cell the record's value of the column.
HoldsExactly(tab, s, records) ==
    /\ Len(tab) = Len(records) + 1
    /\ tab[1] = s.headers
    /\ \A k \in 1..Len(records) :
            /\ Len(tab[k + 1]) = Len(s.headers)
            /\ \A c \in 1..Len(s.headers) : tab[k + 1][c] = records[k][s.headers[c]]

\* C28: when a writeAll(R) has succeeded the tab holds the header row and then
\* the records of R in their order, and nothing else: reading it gives R. The
\* call has made two network calls, the clear of the clear range and then the
\* write of the header and R to the write range, for an empty R the header
\* alone.
C28_WriteAllReplaces ==
    (last.kind = "writeAll" /\ last.result.kind = "ok")
        => LET s == schemas[last.model]
           IN  /\ HoldsExactly(sheets[s.sheetName], s, last.list)
               /\ RecordsAfter = last.list
               /\ Len(last.calls) = 2
               /\ last.calls[1] = [fn |-> "clearRange", range |-> s.clearRange]
               /\ last.calls[2].fn = "updateSheet" /\ ~last.calls[2].append
               /\ last.calls[2].range = s.writeRange
               /\ HoldsExactly(last.calls[2].values, s, last.list)

C28_Witness ==
    /\ last.kind = "writeAll" /\ last.result.kind = "ok"
    /\ last.list = <<>>
    /\ Len(readAllRaw(last.before, schemas.Orders)) = 2
    /\ sheets.Orders = <<schemas.Orders.headers>>

\* The records the payload gives for model m: payload[m] ?? [].
PayloadOf(payload, m) == IF m \in DOMAIN payload THEN payload[m] ELSE <<>>

C30_BatchSyncAtomic ==
    \A i \in Slots :
        (/\ last.kind = "readAll" /\ last.result.kind = "ok"
         /\ ops[i].kind = "batchSync" /\ ops[i].pc \in {"batchClear", "batchUpdate"})
            => last.result.value \in {readAllRaw(ops[i].before, schemas[last.model]),
                                      PayloadOf(ops[i].rec, last.model)}

\* ------------------------------------------------------------------ a table without primary key

\* Notes holds nothing or its header and one row; Orders holds record a.
InitNoPk ==
    /\ sheets \in {[Orders |-> <<schemas.Orders.headers, <<"a", "x">>>>, Items |-> <<>>, Notes |-> n] :
                     n \in {<<>>, <<schemas.Notes.headers, <<"hello">>>>}}
    /\ ops = [i \in Slots |-> Idle]
    /\ writeLock = 0
    /\ last = NoEvent
    /\ ctx = [auth |-> "token", apiKey |-> UNDEF]

\* findById, update and delete on Notes, and on Orders, which has a primary key.
NextNoPk ==
    \/ \E m \in {"Notes", "Orders"}, id \in {"a", "hello"} : IssueFindById(m, id)
    \/ \E id \in {"a", "hello"} : IssueUpdate("Notes", id, [text |-> "bye"], FALSE)
    \/ IssueUpdate("Orders", "a", [customer |-> "z"], FALSE)
    \/ \E m \in {"Notes", "Orders"}, id \in {"a", "hello"} : IssueDelete(m, id)
    \/ \E i \in Slots : FindByIdRead(i)
    \/ \E i \in Slots : UpdateBegin(i)
    \/ \E i \in Slots : UpdateRead(i)
    \/ \E i \in Slots : UpdateClear(i)
    \/ \E i \in Slots : UpdateWrite(i)
    \/ \E i \in Slots : DeleteBegin(i)
    \/ \E i \in Slots : DeleteRead(i)
    \/ \E i \in Slots : DeleteClear(i)
    \/ \E i \in Slots : DeleteWrite(i)

SpecNoPk == InitNoPk /\ [][NextNoPk]_vars

\* C31: on a table whose schema has no primary key, findById, update and
\* delete each settle with an error.
C31_IdentityOperationsFail ==
    (last.kind \in {"findById", "update", "delete"} /\ schemas[last.model].primaryKey = UNDEF)
        => last.result.kind # "ok"

\* ------------------------------------------------------------------ the write lock after an error

\* Orders holds record a.
InitRelease ==
    /\ sheets = [Orders |-> <<schemas.Orders.headers, <<"a", "x">>>>, Items |-> <<>>, Notes |-> <<>>]
    /\ ops = [i \in Slots |-> Idle]
    /\ writeLock = 0
    /\ last = NoEvent
    /\ ctx = [auth |-> "token", apiKey |-> UNDEF]

\* The steps of the call in slot i.
StepRelease(i) ==
    \/ UpdateBegin(i) \/ UpdateRead(i) \/ UpdateClear(i) \/ UpdateWrite(i)
    \/ WriteAllBegin(i)

\* Updates of a stored and of an absent record, writeAll of an invalid list.
NextRelease ==
    \/ \E k \in {"a", "b"} : IssueUpdate("Orders", k, [customer |-> "z"], FALSE)
    \/ IssueWriteAll("Orders", <<[customer |-> "y"]>>)
    \/ \E i \in Slots : StepRelease(i)

\* Every network call is answered, and every continuation that can run does.
SpecRelease ==
    /\ InitRelease /\ [][NextRelease]_vars
    /\ \A i \in Slots : WF_vars(StepRelease(i))

\* C32: a queued write-class call waits only for a call that is still under
\* way, whatever calls before it settled with, and every write-class call
\* requested settles.
C32_ErrorReleasesLock ==
    /\ [](\A j \in Slots :
            /\ ops[j].prev # 0 => ops[ops[j].prev].kind \in WriteKinds
            /\ writeLock # 0 => ops[writeLock].kind \in WriteKinds)
    /\ \A i \in Slots : (ops[i].kind \in WriteKinds) ~> (ops[i].kind = "idle")

C32_Witness ==
    /\ last.kind = "update" /\ last.result.kind = "VALIDATION_ERROR"
    /\ \E j \in Slots : ops[j].kind = "writeAll" /\ ops[j].pc = "queued" /\ ops[j].prev = 0
    /\ writeLock # 0

\* ------------------------------------------------------------------ reads beside writes

ReadKinds == {"findById", "findMany", "readAll", "raw.readRange"}

\* Orders holds record a; the client's auth is a provider.
InitReads ==
    /\ sheets = [Orders |-> <<schemas.Orders.headers, <<"a", "x">>>>, Items |-> <<>>, Notes |-> <<>>]
    /\ ops = [i \in Slots |-> Idle]
    /\ writeLock = 0
    /\ last = NoEvent
    /\ ctx = [auth |-> Provider, apiKey |-> UNDEF]

\* The steps of the read in slot i.
StepRead(i) ==
    \/ FindByIdRead(i) \/ ReadRecords(i)
    \/ RawReadRangeHeaders(i) \/ RawReadRangeFetch(i) \/ RawReadRangeRefresh(i) \/ RawReadRangeRetry(i)

\* The four reads of Orders beside updates and deletes of its record.
NextReads ==
    \/ IssueUpdate("Orders", "a", [customer |-> "z"], FALSE)
    \/ IssueDelete("Orders", "a")
    \/ IssueFindById("Orders", "a")
    \/ \E kind \in {"findMany", "readAll"} : IssueRead(kind, "Orders", UNDEF, <<>>)
    \/ IssueRawReadRange(schemas.Orders.readRange)
    \/ \E i \in Slots : StepRead(i)
    \/ \E i \in Slots : UpdateBegin(i)
    \/ \E i \in Slots : UpdateRead(i)
    \/ \E i \in Slots : UpdateClear(i)
    \/ \E i \in Slots : UpdateWrite(i)
    \/ \E i \in Slots : DeleteBegin(i)
    \/ \E i \in Slots : DeleteRead(i)
    \/ \E i \in Slots : DeleteClear(i)
    \/ \E i \in Slots : DeleteWrite(i)

SpecReads == InitReads /\ [][NextReads]_vars

\* C33: a read under way holds no promise of the write lock's chain and waits
\* for none, no call waits for it, and its next step can be taken in every
\* state, whatever write holds the lock or is queued.
C33_ReadsTakeNoLock ==
    \A i \in Slots :
        ops[i].kind \in ReadKinds
            => /\ ops[i].prev = 0
               /\ writeLock # i
               /\ \A j \in Slots : ops[j].prev # i
               /\ ENABLED StepRead(i)

C33_Witness ==
    /\ last.kind = "readAll" /\ last.result.kind = "ok"
    /\ \E j \in Slots : ops[j].kind = "update" /\ ops[j].pc = "write" /\ writeLock = j
    /\ last.result.value = <<>>

\* The records the table holds once the write in `op` has completed, given
\* the records it held when the write started.
RecordsWritten(op) ==
    LET s == schemas[op.model]
        records == readAllRaw(op.before, s)
        index == FindIndex(records, s.primaryKey, op.id)
    IN  IF op.kind = "update"
        THEN (IF index = 0 THEN records ELSE ReplaceAt(records, index, Merge(records[index], op.rec)))
        ELSE IF op.kind = "delete" THEN Filter(records, s.primaryKey, op.id)
        ELSE op.list

\* C34: a findMany or readAll that settles while an update, delete or writeAll
\* of its table is executing returns the records the table held when that
\* write started or the records it holds once the write has completed.
C34_ReadSeesOneSide ==
    \A j \in Slots :
        (/\ last.kind \in {"findMany", "readAll"} /\ last.result.kind = "ok"
         /\ ops[j].kind \in {"update", "delete", "writeAll"}
         /\ ops[j].model = last.model
         /\ ops[j].pc # "queued")
            => last.result.value \in {readAllRaw(ops[j].before, schemas[last.model]),
                                      RecordsWritten(ops[j])}

\* The versions the Read-Applied step of a run started now would find.
AppliedNow ==
    LET rows == getSheetValues(sheets, MIGRATIONS_RANGE)
    IN  {rows[r][1] : r \in 1..Len(rows)}

\* C35: in every state every row of the ledger tab lies in MIGRATIONS_RANGE,
\* the range the Read-Applied step reads, and the version it carries is among
\* the versions that step finds; the first row appended to the ledger tab a
\* run has just created is no exception.
C35_LedgerRowsAreRead ==
    MIGRATIONS_SHEET \in DOMAIN sheets
        => /\ \A r \in 1..Len(sheets[MIGRATIONS_SHEET]) : r >= MIGRATIONS_RANGE.row
           /\ LedgerVersions(sheets) \subseteq AppliedNow

\* ------------------------------------------------------------------ two updates of one record

\* The changes of the updates: one names the field customer, the other the
\* field id (with the value the record has).
DisjointChanges == {[customer |-> "z"], [id |-> "a"]}

\* Updates of record a of Orders, which starts as { id: "a", customer: "x" }.
NextTwoUpdates ==
    \/ \E c \in DisjointChanges : IssueUpdate("Orders", "a", c, FALSE)
    \/ \E i \in Slots : UpdateBegin(i)
    \/ \E i \in Slots : UpdateRead(i)
    \/ \E i \in Slots : UpdateClear(i)
    \/ \E i \in Slots : UpdateWrite(i)

SpecTwoUpdates == InitRelease /\ [][NextTwoUpdates]_vars

\* C36: when an update has succeeded that was requested while an update of
\* the same record with other fields was under way, and that one succeeded
\* too, the stored record carries the changes of both; and an update that has
\* the lock finds the table as it was when it got the lock until it clears it.
C36_NoLostUpdate ==
    /\ \A i \in Slots :
            (ops[i].kind = "update" /\ ops[i].pc \in {"read", "clear"})
                => readAllRaw(sheets, schemas[ops[i].model]) = readAllRaw(ops[i].before, schemas[ops[i].model])
    /\ (last.kind = "update" /\ last.result.kind = "ok" /\ last.twin = "ok")
        => LET s == schemas[last.model]
               stored == RecordsAfter[FindIndex(RecordsAfter, s.primaryKey, last.id)]
           IN  /\ FindIndex(RecordsAfter, s.primaryKey, last.id) # 0
               /\ \A c \in DisjointChanges : \A f \in DOMAIN c : stored[f] = c[f]

C36_Witness ==
    /\ last.kind = "update" /\ last.result.kind = "ok" /\ last.twin = "ok"
    /\ last.rec = [id |-> "a"]
    /\ RecordsBefore = <<[id |-> "a", customer |-> "z"]>>
    /\ RecordsAfter = <<[id |-> "a", customer |-> "z"]>>

\* ------------------------------------------------------------------ a network call that fails

\* The network call the update, delete or writeAll in slot i is about to make
\* fails: fetch throws, or the store answers with a status that is not 2xx and
\* changes nothing.  The error leaves the call through withWriteLock.
CallFails(i) ==
    /\ ops[i].kind \in {"update", "delete", "writeAll"}
    /\ ops[i].pc \in {"read", "clear", "write"}
    /\ LET s == schemas[ops[i].model]
           op == IF ops[i].pc = "read" THEN Read(ops[i], s.readRange)
                 ELSE IF ops[i].pc = "clear" THEN Clear(ops[i], s.clearRange)
                 ELSE Put(ops[i], s.writeRange,
                          HeaderAndRows(s, IF ops[i].kind = "writeAll" THEN ops[i].list
                                           ELSE ops[i].records))
       IN  \E res \in Responses :
               /\ res.threw \/ ~ResponseOk(res)
               /\ Settle(i, op, IF res.threw THEN networkError("Network request failed")
                                ELSE HttpError(res), sheets)

\* update, delete and writeAll of Orders, each network call answered or failing.
NextFail ==
    \/ \E k \in {"a", "b"} : IssueUpdate("Orders", k, [customer |-> "z"], FALSE)
    \/ IssueDelete("Orders", "a")
    \/ \E l \in {<<[id |-> "b", customer |-> "y"]>>, <<[customer |-> "y"]>>} : IssueWriteAll("Orders", l)
    \/ \E i \in Slots : CallFails(i)
    \/ \E i \in Slots : UpdateBegin(i)
    \/ \E i \in Slots : UpdateRead(i)
    \/ \E i \in Slots : UpdateClear(i)
    \/ \E i \in Slots : UpdateWrite(i)
    \/ \E i \in Slots : DeleteBegin(i)
    \/ \E i \in Slots : DeleteRead(i)
    \/ \E i \in Slots : DeleteClear(i)
    \/ \E i \in Slots : DeleteWrite(i)
    \/ \E i \in Slots : WriteAllBegin(i)
    \/ \E i \in Slots : WriteAllClear(i)
    \/ \E i \in Slots : WriteAllWrite(i)

SpecFail == InitRelease /\ [][NextFail]_vars

\* C37: an update, delete or writeAll that settles with an error leaves the
\* table with the records it held when the call started.
C37_ErrorLeavesRecords ==
    (last.kind \in {"update", "delete", "writeAll"} /\ last.result.kind # "ok")
        => RecordsAfter = RecordsBefore

\* C38: in every state reached from the empty table by create, update and
\* delete calls, the stored records of Orders carry pairwise different
\* primary keys.
C38_UniquePrimaryKeys ==
    LET records == readAllRaw(sheets, schemas.Orders)
    IN  \A j, k \in 1..Len(records) :
            j # k => Get(records[j], schemas.Orders.primaryKey) # Get(records[k], schemas.Orders.primaryKey)

\* ------------------------------------------------------------------ foreign keys in the stored records

\* Creates, updates and deletes of Orders and Items, every one with
\* foreign-key validation.
NextFkOn ==
    \/ IssueCreate("Orders", [id |-> "a"], FALSE)
    \/ \E r \in {[id |-> "i", orderId |-> "a"], [id |-> "j", orderId |-> "b"]} : IssueCreate("Items", r, FALSE)
    \/ IssueUpdate("Items", "i", [orderId |-> "b"], FALSE)
    \/ IssueDelete("Orders", "a")
    \/ \E i \in Slots : CreateBegin(i)
    \/ \E i \in Slots : CreateCheckDuplicate(i)
    \/ \E i \in Slots : ValidateForeignKeys(i)
    \/ \E i \in Slots : CreateEnsureHeader(i)
    \/ \E i \in Slots : CreateWriteHeader(i)
    \/ \E i \in Slots : CreateAppend(i)
    \/ \E i \in Slots : UpdateBegin(i)
    \/ \E i \in Slots : UpdateRead(i)
    \/ \E i \in Slots : DeleteBegin(i)
    \/ \E i \in Slots : DeleteRead(i)
    \/ \E i \in Slots : DeleteClear(i)
    \/ \E i \in Slots : DeleteWrite(i)

SpecFkOn == Init /\ [][NextFkOn]_vars

\* C39: in every state in which no table is between the clear and the write
\* of a call, the foreign-key value of every stored record of Items, when it
\* is not null, is the primary key of a stored record of Orders.
C39_StoredForeignKeysResolve ==
    (\A i \in Slots : ops[i].pc # "write")
        => LET items == readAllRaw(sheets, schemas.Items)
           IN  \A k \in 1..Len(items) :
                   \A r \in 1..Len(schemas.Items.relations) :
                       LET relation == schemas.Items.relations[r]
                           v == Get(items[k], relation.sourceField)
                       IN  v \notin {NULL, UNDEF}
                               => v \in Keys(sheets, schemas[relation.targetModel])

\* C40: a batchSync leaves the tab of every registered schema whose key its
\* payload does not name as it was when the call started: the same stored
\* records.
C40_BatchSyncFrame ==
    (last.kind = "batchSync" /\ last.result.kind = "ok")
        => \A m \in Range(ModelKeys) \ DOMAIN last.rec :
               readAllRaw(sheets, schemas[m]) = readAllRaw(last.before, schemas[m])

====
